---- MODULE Spec2Model ----
(***************************************************************************)
(* Model of the music-marketplace-backend catalog import:                  *)
(*   - spotify-seeder.js      (SpotifySeeder: token, paged fetch, upserts, *)
(*                             relation linking, cover archiving, run)     *)
(*   - album-cover-seeder.js  (AlbumCoverSeeder: covers for stored albums) *)
(*   - server.js              (GET /health, POST /purchase,                *)
(*                             POST /songs/:id/play)                       *)
(* The relational store is modelled as sets of rows with the unique keys   *)
(* of the migration; every external call (token endpoint, page fetch,      *)
(* store write, image download, blob upload) may succeed or fail.          *)
(***************************************************************************)
EXTENDS Naturals, Integers, Sequences, FiniteSets, TLC

(***************************************************************************)
(* Bounds of the model                                                     *)
(***************************************************************************)
MaxLen == 2        \* longest source playlist (number of items)
MaxRuns == 2       \* number of process runs of the seeder in one behaviour
MaxVer == 2        \* versions of the external data (names change with it)
MaxLimit == 2      \* largest page size passed to fetchPlaylist
MaxBlobs == 3      \* number of objects the content store may receive
MaxNow == 2        \* seconds the clock may advance
MaxCalls == 2      \* calls of store or token methods in one behaviour
MaxIds == 2        \* longest artist id list passed to a linking method
MaxExpiresIn == 2  \* largest expires_in (seconds) the token endpoint answers
MaxRequests == 2   \* requests the server handles in one behaviour, possibly at once

None == "none"

(***************************************************************************)
(* The external catalog: what the playlist endpoint returns for a track.   *)
(* t1 and t2 are by artist A on album X, t3 is by artist B on album Y.     *)
(***************************************************************************)
TrackIds == {"t1", "t2", "t3"}
AlbumIds == {"X", "Y"}
ArtistIds == {"A", "B"}
PLAYLIST_ID == "P"

AlbumOf(t) == IF t = "t3" THEN "Y" ELSE "X"
ArtistsOf(t) == IF t = "t3" THEN <<"B">> ELSE <<"A">>

\* sequences over S of length 0..n
RECURSIVE SeqsUpTo(_, _)
SeqsUpTo(S, n) ==
    IF n = 0 THEN {<<>>}
    ELSE LET shorter == SeqsUpTo(S, n - 1)
         IN shorter \cup {Append(s, x) : s \in {q \in shorter : Len(q) = n - 1}, x \in S}

\* a source playlist: the ordered track ids and the version of the metadata
Sources == [items : SeqsUpTo(TrackIds, MaxLen), ver : 1..MaxVer]

Range(f) == {f[k] : k \in DOMAIN f}
Min(a, b) == IF a < b THEN a ELSE b

VARIABLES
    \* ---- relational store (prisma) and content store (blob container)
    artists, albums, tracks, playlists,
    albumArtists, trackArtists, playlistTracks, media, blobs,
    \* ---- process environment
    containerConfigured,   \* containerClient is not null
    brokenImages,          \* every image URL of the source fails to download
    \* ---- one process run of spotify-seeder.js
    pc, source, limit, accessToken, totalTracks, offset, allTracks,
    i, j, artistIds, processedAlbum, processedData, exitCode, summary,
    \* ---- one process run of album-cover-seeder.js
    stats, calbums, ci,
    \* ---- observation of the run (not program state)
    runs, errorLog, dbAtStart, prev, lastUpsert, coverCalls, downloads, uploads,
    requests,              \* what fetchPlaylist has sent and waited for, in order
    call,                  \* the last call of a store or token method and its outcome
    \* ---- the clock, the token cache's expiry, the /health handler of server.js
    now, tokenExpiry, skipChecks, healthCheck, response,
    \* ---- server.js: user songs, purchases, and the requests being handled
    userSongs, purchases, handlers

dbVars == <<artists, albums, tracks, playlists, albumArtists, trackArtists,
            playlistTracks, media, blobs>>
envVars == <<containerConfigured, brokenImages>>
shopVars == <<userSongs, purchases, handlers>>
runVars == <<pc, source, limit, accessToken, totalTracks, offset, allTracks,
             i, j, artistIds, processedAlbum, processedData, exitCode, summary>>
coverVars == <<stats, calbums, ci>>
obsVars == <<runs, errorLog, dbAtStart, prev, lastUpsert, coverCalls, downloads, uploads>>
serviceVars == <<call, now, tokenExpiry, skipChecks, healthCheck, response>>
vars == <<dbVars, envVars, shopVars, runVars, coverVars, obsVars, requests, serviceVars>>

(***************************************************************************)
(* The relational store                                                    *)
(***************************************************************************)
\* the store-generated primary key of a row created for natural key k
NewId(k) == <<k>>

\* prisma <model>.findUnique({ where: { spotify_id } })
FindBySpotifyId(table, sid) == {r \in table : r.spotify_id = sid}

\* external record shapes derived from a playlist item
ArtistData(a, ver) == [id |-> a, name |-> ver]
AlbumData(a, ver) == [id |-> a, name |-> ver, images |-> IF a = "X" THEN <<"img">> ELSE <<>>]
TrackData(t, ver) ==
    [id |-> t, name |-> ver, album |-> AlbumData(AlbumOf(t), ver),
     artists |-> [k \in DOMAIN ArtistsOf(t) |-> ArtistData(ArtistsOf(t)[k], ver)],
     added_at |-> ver]
PlaylistData(ver, items) == [id |-> PLAYLIST_ID, name |-> ver, total |-> Len(items)]

\* Every upsert takes the time t of the call.  A created row gets created_at from
\* the column default CURRENT_TIMESTAMP and updated_at (NOT NULL, no default, not
\* in the create block) from the client at the same instant; the update block
\* sets updated_at: new Date() and does not name created_at.

\* UpsertArtist with an update branch that leaves the name as stored
UpsertArtistKeepName(table, artistData, t) ==
    LET found == FindBySpotifyId(table, artistData.id)
    IN IF found = {}
       THEN table \cup {[id |-> NewId(artistData.id), spotify_id |-> artistData.id,
                          name |-> artistData.name, created_at |-> t, updated_at |-> t]}
       ELSE (table \ found) \cup {[r EXCEPT !.updated_at = t] : r \in found}

\* prisma.artist.upsert: where spotify_id; update name...; create all fields
UpsertArtist(table, artistData, t) ==
    LET found == FindBySpotifyId(table, artistData.id)
    IN IF found = {}
       THEN table \cup {[id |-> NewId(artistData.id), spotify_id |-> artistData.id,
                          name |-> artistData.name, created_at |-> t, updated_at |-> t]}
       ELSE (table \ found) \cup {[r EXCEPT !.name = artistData.name,
                                             !.updated_at = t] : r \in found}

\* prisma.album.upsert
UpsertAlbum(table, albumData, t) ==
    LET found == FindBySpotifyId(table, albumData.id)
    IN IF found = {}
       THEN table \cup {[id |-> NewId(albumData.id), spotify_id |-> albumData.id,
                          name |-> albumData.name, created_at |-> t, updated_at |-> t]}
       ELSE (table \ found) \cup {[r EXCEPT !.name = albumData.name,
                                             !.updated_at = t] : r \in found}

\* prisma.track.upsert: the update branch does not list album_id
UpsertTrack(table, trackData, albumId, t) ==
    LET found == FindBySpotifyId(table, trackData.id)
    IN IF found = {}
       THEN table \cup {[id |-> NewId(trackData.id), spotify_id |-> trackData.id,
                          name |-> trackData.name, album_id |-> albumId,
                          created_at |-> t, updated_at |-> t]}
       ELSE (table \ found) \cup {[r EXCEPT !.name = trackData.name,
                                             !.updated_at = t] : r \in found}

\* UpsertPlaylist whose update branch stamps the row as if it were new
UpsertPlaylistRestamp(table, playlistData, t) ==
    LET found == FindBySpotifyId(table, playlistData.id)
    IN IF found = {}
       THEN table \cup {[id |-> NewId(playlistData.id), spotify_id |-> playlistData.id,
                          name |-> playlistData.name, total_tracks |-> playlistData.total,
                          created_at |-> t, updated_at |-> t]}
       ELSE (table \ found) \cup {[r EXCEPT !.name = playlistData.name,
                                             !.total_tracks = playlistData.total,
                                             !.created_at = t,
                                             !.updated_at = t] : r \in found}

\* prisma.playlist.upsert
UpsertPlaylist(table, playlistData, t) ==
    LET found == FindBySpotifyId(table, playlistData.id)
    IN IF found = {}
       THEN table \cup {[id |-> NewId(playlistData.id), spotify_id |-> playlistData.id,
                          name |-> playlistData.name, total_tracks |-> playlistData.total,
                          created_at |-> t, updated_at |-> t]}
       ELSE (table \ found) \cup {[r EXCEPT !.name = playlistData.name,
                                             !.total_tracks = playlistData.total,
                                             !.updated_at = t] : r \in found}

\* the local id the store holds for an external id (the upsert's return value .id)
IdOf(table, sid) == (CHOOSE r \in FindBySpotifyId(table, sid) : TRUE).id

\* LinkAlbumArtist as a plain insert: a row per call
LinkAlbumArtistInsert(table, albumId, artistId, t) ==
    table \cup {[album_id |-> albumId, artist_id |-> artistId, created_at |-> t]}

\* prisma.albumArtist.upsert, update: {}: a no-op when the pair exists
LinkAlbumArtist(table, albumId, artistId, t) ==
    IF \E r \in table : r.album_id = albumId /\ r.artist_id = artistId
    THEN table
    ELSE table \cup {[album_id |-> albumId, artist_id |-> artistId, created_at |-> t]}

\* LinkTrackArtist keyed by the artist alone
LinkTrackArtistByArtist(table, trackId, artistId, t) ==
    IF \E r \in table : r.artist_id = artistId
    THEN table
    ELSE table \cup {[track_id |-> trackId, artist_id |-> artistId, created_at |-> t]}

\* prisma.trackArtist.upsert, update: {}
LinkTrackArtist(table, trackId, artistId, t) ==
    IF \E r \in table : r.track_id = trackId /\ r.artist_id = artistId
    THEN table
    ELSE table \cup {[track_id |-> trackId, artist_id |-> artistId, created_at |-> t]}

\* LinkError with the writes of the failed call undone
LinkErrorRolledBack(before, written) == before

\* the catch of createAlbumArtistRelations / createTrackArtistRelations logs and
\* rethrows: the store keeps what the loop wrote before the failing upsert
LinkError(before, written) == written

\* createAlbumArtistRelations / createTrackArtistRelations: the first n ids of the list
RECURSIVE LinkAlbumArtists(_, _, _, _, _)
LinkAlbumArtists(table, albumId, ids, n, t) ==
    IF n = 0 THEN table
    ELSE LinkAlbumArtist(LinkAlbumArtists(table, albumId, ids, n - 1, t), albumId, ids[n], t)

RECURSIVE LinkTrackArtists(_, _, _, _, _)
LinkTrackArtists(table, trackId, ids, n, t) ==
    IF n = 0 THEN table
    ELSE LinkTrackArtist(LinkTrackArtists(table, trackId, ids, n - 1, t), trackId, ids[n], t)

\* prisma.playlistTrack.upsert keyed by (playlist_id, track_id, position)
UpsertPlaylistTrack(table, playlistId, trackId, position, addedAt) ==
    LET found == {r \in table : r.playlist_id = playlistId /\ r.track_id = trackId
                                  /\ r.position = position}
    IN IF found = {}
       THEN table \cup {[playlist_id |-> playlistId, track_id |-> trackId,
                          position |-> position, added_at |-> addedAt]}
       ELSE (table \ found) \cup {[r EXCEPT !.added_at = addedAt, !.position = position]
                                    : r \in found}

\* LinkPlaylistTracks with positions that continue after the rows already stored
RECURSIVE LinkPlaylistTracksAppend(_, _, _, _, _, _)
LinkPlaylistTracksAppend(table, trackTable, playlistId, items, ver, n) ==
    IF n = 0 THEN table
    ELSE LET before == LinkPlaylistTracksAppend(table, trackTable, playlistId, items, ver, n - 1)
             item == TrackData(items[n], ver)
         IN IF FindBySpotifyId(trackTable, item.id) = {}
            THEN before
            ELSE UpsertPlaylistTrack(before, playlistId, IdOf(trackTable, item.id),
                                     Cardinality(table) + n, item.added_at)

\* LinkPlaylistTracks with the 0-based loop index as the position
RECURSIVE LinkPlaylistTracksZeroBased(_, _, _, _, _, _)
LinkPlaylistTracksZeroBased(table, trackTable, playlistId, items, ver, n) ==
    IF n = 0 THEN table
    ELSE LET before == LinkPlaylistTracksZeroBased(table, trackTable, playlistId, items, ver, n - 1)
             item == TrackData(items[n], ver)
         IN IF FindBySpotifyId(trackTable, item.id) = {}
            THEN before
            ELSE UpsertPlaylistTrack(before, playlistId, IdOf(trackTable, item.id),
                                     n - 1, item.added_at)

\* createPlaylistTrackRelations: the loop over the first n items (position is the
\* 0-based loop index + 1, here the 1-based n); an item whose track is not in the
\* store (findUnique returns null) is skipped
RECURSIVE LinkPlaylistTracks(_, _, _, _, _, _)
LinkPlaylistTracks(table, trackTable, playlistId, items, ver, n) ==
    IF n = 0 THEN table
    ELSE LET before == LinkPlaylistTracks(table, trackTable, playlistId, items, ver, n - 1)
             item == TrackData(items[n], ver)
         IN IF FindBySpotifyId(trackTable, item.id) = {}
            THEN before
            ELSE UpsertPlaylistTrack(before, playlistId, IdOf(trackTable, item.id),
                                     n, item.added_at)

EmptyData == [artists |-> {}, albums |-> {}, tracks |-> <<>>, playlist |-> <<>>]
NoUpsert == [table |-> None, sid |-> None, name |-> 0, renamed |-> FALSE]
\* an upsert presenting a name for an external id stored under another name
Renames(table, sid, name) == \E r \in FindBySpotifyId(table, sid) : r.name # name
ZeroCount == [a \in AlbumIds |-> 0]
\* AlbumCoverSeeder constructor: this.stats
ZeroStats == [total |-> 0, processed |-> 0, success |-> 0, skipped |-> 0, failed |-> 0,
              errors |-> <<>>]

ZeroCounts ==
    [artists |-> 0, albums |-> 0, tracks |-> 0, playlists |-> 0,
     albumArtists |-> 0, trackArtists |-> 0, playlistTracks |-> 0]
NoPrev == [valid |-> FALSE, source |-> [items |-> <<>>, ver |-> 1], counts |-> ZeroCounts]

Counts ==
    [artists |-> Cardinality(artists), albums |-> Cardinality(albums),
     tracks |-> Cardinality(tracks), playlists |-> Cardinality(playlists),
     albumArtists |-> Cardinality(albumArtists), trackArtists |-> Cardinality(trackArtists),
     playlistTracks |-> Cardinality(playlistTracks)]

NoCall == [op |-> None, n |-> 0]
NoHealthCheck == [status |-> None]
NoResponse == [code |-> 0]

\* a handler slot that no request has reached
FreeHandler ==
    [pc |-> "free", route |-> None, userId |-> None, songId |-> <<>>, songType |-> None,
     userSong |-> {}, track |-> {}, resolvedSongType |-> None, plays |-> 0, status |-> 0]

\* no user song, no purchase, no request to a song or purchase route
ShopIdle ==
    /\ userSongs = {} /\ purchases = {}
    /\ handlers = [h \in 1..MaxRequests |-> FreeHandler]

\* no method call observed, the clock at its origin, no request to the server
ServiceIdle ==
    /\ ShopIdle
    /\ call = NoCall
    /\ now = 0
    /\ tokenExpiry = 0
    /\ skipChecks = [db |-> FALSE, blob |-> FALSE]
    /\ healthCheck = NoHealthCheck
    /\ response = NoResponse

(***************************************************************************)
(* Initial state: empty stores, no process running                         *)
(***************************************************************************)
Init ==
    /\ artists = {} /\ albums = {} /\ tracks = {} /\ playlists = {}
    /\ albumArtists = {} /\ trackArtists = {} /\ playlistTracks = {}
    /\ media = {} /\ blobs = {}
    /\ containerConfigured \in BOOLEAN
    /\ brokenImages \in BOOLEAN
    /\ stats = ZeroStats /\ calbums = <<>> /\ ci = 0
    /\ pc = "idle"
    /\ source = [items |-> <<>>, ver |-> 1]
    /\ limit = 0
    /\ accessToken = None
    /\ totalTracks = 0 /\ offset = 0 /\ allTracks = <<>>
    /\ i = 0 /\ j = 0 /\ artistIds = <<>> /\ processedAlbum = <<>>
    /\ processedData = EmptyData
    /\ exitCode = 0
    /\ summary = None
    /\ runs = 0
    /\ errorLog = {}
    /\ dbAtStart = <<>>
    /\ prev = NoPrev
    /\ lastUpsert = NoUpsert
    /\ coverCalls = ZeroCount
    /\ downloads = ZeroCount
    /\ uploads = ZeroCount
    /\ requests = <<>>
    /\ ServiceIdle

\* an error that reaches main's catch: "Script execution failed", process.exit(1)
Abort(stage) ==
    /\ pc' = "aborted"
    /\ exitCode' = 1
    /\ errorLog' = errorLog \cup {stage}

\* the record being processed by the loop of processTracks
CurrentTrack == TrackData(allTracks[i], source.ver)

(***************************************************************************)
(* main(): a new process, a new SpotifySeeder                              *)
(***************************************************************************)
MainOn(Playlists) ==
    /\ pc = "idle"
    /\ runs < MaxRuns
    /\ \E s \in Playlists, l \in 1..MaxLimit :
          /\ source' = s
          /\ limit' = l
          /\ prev' = IF prev.valid /\ s = prev.source THEN prev ELSE NoPrev
    /\ runs' = runs + 1
    /\ dbAtStart' = dbVars
    /\ pc' = "auth"
    /\ UNCHANGED <<dbVars, envVars, shopVars, coverVars, serviceVars, requests, accessToken, totalTracks, offset, allTracks,
                   i, j, artistIds, processedAlbum, processedData, exitCode, summary,
                   errorLog, lastUpsert, coverCalls, downloads, uploads>>

\* the playlist behind PLAYLIST_ID is any of Sources
Main == MainOn(Sources)

\* the process ends (return of main, or process.exit(1)); its memory is gone,
\* the stores stay.  prev records the counts a completed run left behind.
ProcessExit ==
    /\ pc \in {"done", "aborted"}
    /\ prev' = IF pc = "done"
               THEN [valid |-> TRUE, source |-> source, counts |-> Counts]
               ELSE prev
    /\ pc' = "idle"
    /\ source' = [items |-> <<>>, ver |-> 1]
    /\ limit' = 0
    /\ accessToken' = None
    /\ totalTracks' = 0 /\ offset' = 0 /\ allTracks' = <<>>
    /\ i' = 0 /\ j' = 0 /\ artistIds' = <<>> /\ processedAlbum' = <<>>
    /\ processedData' = EmptyData
    /\ exitCode' = 0
    /\ summary' = None
    /\ errorLog' = {}
    /\ dbAtStart' = <<>>
    /\ lastUpsert' = NoUpsert
    /\ coverCalls' = ZeroCount
    /\ downloads' = ZeroCount
    /\ uploads' = ZeroCount
    /\ requests' = <<>>
    /\ UNCHANGED <<dbVars, envVars, shopVars, coverVars, serviceVars, runs>>

\* missing configuration or prisma.$connect() failing: exit before seedDatabase
MainFail ==
    /\ pc = "auth"
    /\ Abort("startup")
    /\ UNCHANGED <<dbVars, envVars, shopVars, coverVars, serviceVars, requests, source, limit, accessToken, totalTracks, offset,
                   allTracks, i, j, artistIds, processedAlbum, processedData, summary,
                   runs, dbAtStart, prev, lastUpsert, coverCalls, downloads, uploads>>

(***************************************************************************)
(* getAccessToken, called first by fetchPlaylist                           *)
(***************************************************************************)
GetAccessTokenOk ==
    /\ pc = "auth"
    /\ accessToken' = "token"
    /\ pc' = "meta"
    /\ UNCHANGED <<dbVars, envVars, shopVars, coverVars, serviceVars, requests, source, limit, totalTracks, offset, allTracks,
                   i, j, artistIds, processedAlbum, processedData, exitCode, summary, obsVars>>

\* GetAccessTokenFail with the error swallowed: the fetch goes on without a token
GetAccessTokenFailSwallowed ==
    /\ pc = "auth"
    /\ pc' = "meta"
    /\ errorLog' = errorLog \cup {"auth"}
    /\ UNCHANGED <<dbVars, envVars, shopVars, coverVars, serviceVars, requests, source, limit, accessToken, totalTracks, offset,
                   allTracks, i, j, artistIds, processedAlbum, processedData, exitCode,
                   summary, runs, dbAtStart, prev, lastUpsert, coverCalls, downloads, uploads>>

GetAccessTokenFail ==
    /\ pc = "auth"
    /\ Abort("auth")
    /\ UNCHANGED <<dbVars, envVars, shopVars, coverVars, serviceVars, requests, source, limit, accessToken, totalTracks, offset,
                   allTracks, i, j, artistIds, processedAlbum, processedData, summary,
                   runs, dbAtStart, prev, lastUpsert, coverCalls, downloads, uploads>>

(***************************************************************************)
(* fetchPlaylist: the metadata request, then the pages                     *)
(***************************************************************************)
\* one entry of the request log: a request of fetchPlaylist or a wait
Request(kind, off) == [kind |-> kind, offset |-> off]

\* what the tracks endpoint answers for (limit, offset): that slice of the playlist
TracksPage(items, lim, off) == SubSeq(items, off + 1, Min(off + lim, Len(items)))

\* PushBatch that puts the batch in front of the items fetched so far
PushBatchFront(all, batch) == batch \o all

\* allTracks.push(...batchTracks)
PushBatch(all, batch) == all \o batch

\* MoreBatches that waits after every batch, the last included
MoreBatchesAlways(off, total) == TRUE

\* if (offset < totalTracks), after offset += limit: another batch follows
MoreBatches(off, total) == off < total

\* NextOffset that leaves the offset where it is
NextOffsetSame(off, lim) == off

\* offset += limit
NextOffset(off, lim) == off + lim

\* the playlist request: totalTracks = playlist.tracks.total, offset = 0
FetchMetaOk ==
    /\ pc = "meta"
    /\ requests' = <<Request("meta", 0)>>
    /\ allTracks' = <<>>
    /\ totalTracks' = Len(source.items)
    /\ offset' = 0
    /\ pc' = IF 0 < Len(source.items) THEN "pages" ELSE "fetched"
    /\ UNCHANGED <<dbVars, envVars, shopVars, coverVars, serviceVars, source, limit, accessToken,
                   i, j, artistIds, processedAlbum, processedData, exitCode, summary,
                   obsVars>>

FetchMetaFail ==
    /\ pc = "meta"
    /\ Abort("fetch")
    /\ UNCHANGED <<dbVars, envVars, shopVars, coverVars, serviceVars, requests, source, limit, accessToken, totalTracks, offset,
                   allTracks, i, j, artistIds, processedAlbum, processedData, summary,
                   runs, dbAtStart, prev, lastUpsert, coverCalls, downloads, uploads>>

\* one iteration of while (offset < totalTracks): the page request, the push,
\* offset += limit, and the delay when another batch follows
FetchPageOk ==
    /\ pc = "pages"
    /\ offset < totalTracks
    /\ allTracks' = PushBatch(allTracks, TracksPage(source.items, limit, offset))
    /\ offset' = NextOffset(offset, limit)
    /\ requests' = requests \o <<Request("page", offset)>>
                     \o (IF MoreBatches(offset', totalTracks)
                         THEN <<Request("delay", 0)>> ELSE <<>>)
    /\ pc' = IF offset' < totalTracks THEN "pages" ELSE "fetched"
    /\ UNCHANGED <<dbVars, envVars, shopVars, coverVars, serviceVars, source, limit, accessToken,
                   totalTracks, i, j, artistIds, processedAlbum, processedData, exitCode,
                   summary, obsVars>>

\* FetchPageFail with the error swallowed: the pages fetched so far are returned
FetchPageFailPartial ==
    /\ pc = "pages"
    /\ offset < totalTracks
    /\ pc' = "playlist"
    /\ totalTracks' = 0 /\ offset' = 0 /\ limit' = 0
    /\ requests' = <<>>
    /\ errorLog' = errorLog \cup {"fetch"}
    /\ UNCHANGED <<dbVars, envVars, shopVars, coverVars, serviceVars, source, accessToken, allTracks, i, j, artistIds,
                   processedAlbum, processedData, exitCode, summary, runs, dbAtStart,
                   prev, lastUpsert, coverCalls, downloads, uploads>>

FetchPageFail ==
    /\ pc = "pages"
    /\ offset < totalTracks
    /\ Abort("fetch")
    /\ UNCHANGED <<dbVars, envVars, shopVars, coverVars, serviceVars, requests, source, limit, accessToken, totalTracks, offset,
                   allTracks, i, j, artistIds, processedAlbum, processedData, summary,
                   runs, dbAtStart, prev, lastUpsert, coverCalls, downloads, uploads>>

\* the loop has ended: playlist.tracks.items = allTracks, return playlist; the
\* locals of fetchPlaylist (limit, totalTracks, offset) end with its return
FetchReturn ==
    /\ pc = "fetched"
    /\ pc' = "playlist"
    /\ totalTracks' = 0 /\ offset' = 0 /\ limit' = 0
    /\ requests' = <<>>
    /\ UNCHANGED <<dbVars, envVars, shopVars, coverVars, serviceVars, source, accessToken, allTracks,
                   i, j, artistIds, processedAlbum, processedData, exitCode, summary,
                   obsVars>>

(***************************************************************************)
(* processTracks                                                           *)
(***************************************************************************)
UpsertPlaylistOk ==
    /\ pc = "playlist"
    /\ playlists' = UpsertPlaylist(playlists, PlaylistData(source.ver, allTracks), now)
    /\ processedData' = [processedData EXCEPT !.playlist = IdOf(playlists', PLAYLIST_ID)]
    /\ lastUpsert' = [table |-> "playlist", sid |-> PLAYLIST_ID, name |-> source.ver,
                     renamed |-> Renames(playlists, PLAYLIST_ID, source.ver)]
    /\ IF Len(allTracks) > 0
       THEN pc' = "artists" /\ i' = 1 /\ j' = 1
       ELSE pc' = "link" /\ UNCHANGED <<i, j>>
    /\ artistIds' = <<>>
    /\ UNCHANGED <<artists, albums, tracks, albumArtists, trackArtists, playlistTracks,
                   media, blobs, envVars, shopVars, coverVars, serviceVars, requests, source, limit, accessToken, totalTracks, offset,
                   allTracks, processedAlbum, exitCode, summary, runs, prev,
                   errorLog, dbAtStart, coverCalls, downloads, uploads>>

\* an error inside processTracks: caught at line 539, rethrown, seedDatabase
\* rethrows, main exits with 1; nothing but the failing write is undone
ProcessFail(stage) ==
    /\ Abort(stage)
    /\ UNCHANGED <<envVars, shopVars, coverVars, serviceVars, requests, source, limit, accessToken, totalTracks, offset, allTracks,
                   i, j, artistIds, processedAlbum, processedData, summary, runs, dbAtStart,
                   prev, lastUpsert, coverCalls, downloads, uploads>>

UpsertPlaylistFail ==
    /\ pc = "playlist"
    /\ ProcessFail("playlist")
    /\ UNCHANGED dbVars

\* one iteration of: for (const artist of track.artists)
UpsertArtistOk ==
    /\ pc = "artists"
    /\ LET artist == CurrentTrack.artists[j]
       IN /\ artists' = UpsertArtist(artists, artist, now)
          /\ artistIds' = Append(artistIds, IdOf(artists', artist.id))
          /\ processedData' = [processedData EXCEPT !.artists = @ \cup {artist.id}]
          /\ lastUpsert' = [table |-> "artist", sid |-> artist.id, name |-> artist.name,
                           renamed |-> Renames(artists, artist.id, artist.name)]
    /\ j' = j + 1
    /\ pc' = IF j' > Len(CurrentTrack.artists) THEN "album" ELSE "artists"
    /\ UNCHANGED <<albums, tracks, playlists, albumArtists, trackArtists, playlistTracks,
                   media, blobs, envVars, shopVars, coverVars, serviceVars, requests, source, limit, accessToken, totalTracks, offset,
                   allTracks, i, processedAlbum, exitCode, summary, runs, prev,
                   errorLog, dbAtStart, coverCalls, downloads, uploads>>

UpsertArtistFail ==
    /\ pc = "artists"
    /\ ProcessFail("record")
    /\ UNCHANGED dbVars

\* media_album_id_type_key: media.create succeeds only on a free (album_id, type)
MediaKeyFree(table, albumId, type) ==
    ~\E m \in table : m.album_id = albumId /\ m.type = type

\* CoverNeeded without the seen-check: every record archives its album's cover
CoverNeededAlways(albumsMap, albumKey) == TRUE

\* line 509: !processedData.albums.has(albumKey), evaluated on the map as it is
\* after line 504 stored the album under the same key
CoverNeeded(albumsMap, albumKey) == albumKey \notin albumsMap

\* SpotifySeeder.downloadAndStoreAlbumCover: every failure is caught and the
\* method returns null; the blob of a failed media.create stays in the container
DownloadAndStoreAlbumCover(albumData, albumId) ==
    /\ coverCalls' = [coverCalls EXCEPT ![albumData.id] = @ + 1]
    /\ \/ /\ ~containerConfigured                       \* no Azure storage
          /\ UNCHANGED <<media, blobs, errorLog, downloads, uploads>>
       \/ /\ containerConfigured
          /\ Len(albumData.images) = 0                  \* no cover available
          /\ UNCHANGED <<media, blobs, errorLog, downloads, uploads>>
       \/ /\ containerConfigured
          /\ Len(albumData.images) > 0
          /\ downloads' = [downloads EXCEPT ![albumData.id] = @ + 1]
          /\ \/ /\ errorLog' = errorLog \cup {"cover"}  \* axios.get fails
                /\ UNCHANGED <<media, blobs, uploads>>
             \/ /\ ~brokenImages                        \* downloaded, upload fails
                /\ uploads' = [uploads EXCEPT ![albumData.id] = @ + 1]
                /\ errorLog' = errorLog \cup {"cover"}
                /\ UNCHANGED <<media, blobs>>
             \/ /\ ~brokenImages                        \* uploaded
                /\ Cardinality(blobs) < MaxBlobs
                /\ uploads' = [uploads EXCEPT ![albumData.id] = @ + 1]
                /\ LET filename == Cardinality(blobs) + 1
                   IN /\ blobs' = blobs \cup {filename}
                      /\ \/ /\ errorLog' = errorLog \cup {"cover"}   \* media.create fails
                            /\ UNCHANGED media
                         \/ /\ MediaKeyFree(media, albumId, "album_cover")
                            /\ media' = media \cup {[album_id |-> albumId,
                                                      type |-> "album_cover",
                                                      filename |-> filename]}
                            /\ UNCHANGED errorLog

\* upsertAlbum, the albums Map entry, and the cover step of the record
UpsertAlbumOk ==
    /\ pc = "album"
    /\ LET album == CurrentTrack.album
       IN /\ albums' = UpsertAlbum(albums, album, now)
          /\ processedAlbum' = IdOf(albums', album.id)
          /\ processedData' = [processedData EXCEPT !.albums = @ \cup {album.id}]
          /\ lastUpsert' = [table |-> "album", sid |-> album.id, name |-> album.name,
                           renamed |-> Renames(albums, album.id, album.name)]
          /\ IF CoverNeeded(processedData'.albums, album.id)
             THEN DownloadAndStoreAlbumCover(album, processedAlbum')
             ELSE UNCHANGED <<media, blobs, errorLog, coverCalls, downloads, uploads>>
    /\ pc' = "albumArtists"
    /\ UNCHANGED <<artists, tracks, playlists, albumArtists, trackArtists, playlistTracks,
                   envVars, shopVars, coverVars, serviceVars, requests, source, limit, accessToken, totalTracks, offset, allTracks,
                   i, j, artistIds, exitCode, summary, runs, dbAtStart, prev>>

UpsertAlbumFail ==
    /\ pc = "album"
    /\ ProcessFail("record")
    /\ UNCHANGED dbVars

CreateAlbumArtistRelationsOk ==
    /\ pc = "albumArtists"
    /\ albumArtists' = LinkAlbumArtists(albumArtists, processedAlbum, artistIds, Len(artistIds), now)
    /\ pc' = "track"
    /\ UNCHANGED <<artists, albums, tracks, playlists, trackArtists, playlistTracks,
                   media, blobs, envVars, shopVars, coverVars, serviceVars, requests, source, limit, accessToken, totalTracks, offset,
                   allTracks, i, j, artistIds, processedAlbum, processedData, exitCode,
                   summary, runs, errorLog, dbAtStart, prev, lastUpsert, coverCalls, downloads, uploads>>

\* the upsert of the (n+1)-th artist id throws: the first n links stay
CreateAlbumArtistRelationsFail ==
    /\ pc = "albumArtists"
    /\ \E n \in 0..(Len(artistIds) - 1) :
          albumArtists' = LinkError(albumArtists,
                              LinkAlbumArtists(albumArtists, processedAlbum, artistIds, n, now))
    /\ ProcessFail("record")
    /\ UNCHANGED <<artists, albums, tracks, playlists, trackArtists, playlistTracks,
                   media, blobs>>

UpsertTrackOk ==
    /\ pc = "track"
    /\ tracks' = UpsertTrack(tracks, CurrentTrack, processedAlbum, now)
    /\ processedData' = [processedData EXCEPT !.tracks = Append(@, CurrentTrack.id)]
    /\ lastUpsert' = [table |-> "track", sid |-> CurrentTrack.id, name |-> CurrentTrack.name,
                     renamed |-> Renames(tracks, CurrentTrack.id, CurrentTrack.name)]
    /\ pc' = "trackArtists"
    /\ UNCHANGED <<artists, albums, playlists, albumArtists, trackArtists, playlistTracks,
                   media, blobs, envVars, shopVars, coverVars, serviceVars, requests, source, limit, accessToken, totalTracks, offset,
                   allTracks, i, j, artistIds, processedAlbum, exitCode, summary, runs,
                   errorLog, dbAtStart, prev, coverCalls, downloads, uploads>>

UpsertTrackFail ==
    /\ pc = "track"
    /\ ProcessFail("record")
    /\ UNCHANGED dbVars

\* MoreRecords that ends the record loop after the first record
MoreRecordsNever(k, all) == FALSE

\* for (let i = 0; i < tracks.length; i++), after record k (1-based) is done
MoreRecords(k, all) == k < Len(all)

\* the last step of a record: then the next record, or the playlist linking
CreateTrackArtistRelationsOk ==
    /\ pc = "trackArtists"
    /\ trackArtists' = LinkTrackArtists(trackArtists, IdOf(tracks, CurrentTrack.id),
                                        artistIds, Len(artistIds), now)
    /\ IF MoreRecords(i, allTracks)
       THEN pc' = "artists" /\ i' = i + 1 /\ j' = 1 /\ artistIds' = <<>>
       ELSE pc' = "link" /\ UNCHANGED <<i, j, artistIds>>
    /\ UNCHANGED <<artists, albums, tracks, playlists, albumArtists, playlistTracks,
                   media, blobs, envVars, shopVars, coverVars, serviceVars, requests, source, limit, accessToken, totalTracks, offset,
                   allTracks, processedAlbum, processedData, exitCode, summary, runs,
                   errorLog, dbAtStart, prev, lastUpsert, coverCalls, downloads, uploads>>

CreateTrackArtistRelationsFail ==
    /\ pc = "trackArtists"
    /\ \E n \in 0..(Len(artistIds) - 1) :
          trackArtists' = LinkError(trackArtists,
                              LinkTrackArtists(trackArtists, IdOf(tracks, CurrentTrack.id),
                                               artistIds, n, now))
    /\ ProcessFail("record")
    /\ UNCHANGED <<artists, albums, tracks, playlists, albumArtists, playlistTracks,
                   media, blobs>>

CreatePlaylistTrackRelationsOk ==
    /\ pc = "link"
    /\ playlistTracks' = LinkPlaylistTracks(playlistTracks, tracks, processedData.playlist,
                                            allTracks, source.ver, Len(allTracks))
    /\ pc' = "summary"
    /\ UNCHANGED <<artists, albums, tracks, playlists, albumArtists, trackArtists,
                   media, blobs, envVars, shopVars, coverVars, serviceVars, requests, source, limit, accessToken, totalTracks, offset,
                   allTracks, i, j, artistIds, processedAlbum, processedData, exitCode,
                   summary, runs, errorLog, dbAtStart, prev, lastUpsert, coverCalls, downloads, uploads>>

\* the findUnique or the upsert of item n+1 throws: rows of the first n items stay
CreatePlaylistTrackRelationsFail ==
    /\ pc = "link"
    /\ \E n \in 0..(Len(allTracks) - 1) :
          playlistTracks' = LinkPlaylistTracks(playlistTracks, tracks, processedData.playlist,
                                              allTracks, source.ver, n)
    /\ ProcessFail("link")
    /\ UNCHANGED <<artists, albums, tracks, playlists, albumArtists, trackArtists,
                   media, blobs>>

\* displaySummary, then seedDatabase and main return
DisplaySummary ==
    /\ pc = "summary"
    /\ summary' = [albums |-> Cardinality(processedData.albums),
                   artists |-> Cardinality(processedData.artists),
                   tracks |-> Len(processedData.tracks)]
    /\ pc' = "done"
    /\ UNCHANGED <<dbVars, envVars, shopVars, coverVars, serviceVars, requests, source, limit, accessToken, totalTracks, offset,
                   allTracks, i, j, artistIds, processedAlbum, processedData, exitCode,
                   obsVars>>

Next ==
    \/ Main \/ MainFail \/ ProcessExit
    \/ GetAccessTokenOk \/ GetAccessTokenFail
    \/ FetchMetaOk \/ FetchMetaFail \/ FetchPageOk \/ FetchPageFail \/ FetchReturn
    \/ UpsertPlaylistOk \/ UpsertPlaylistFail
    \/ UpsertArtistOk \/ UpsertArtistFail
    \/ UpsertAlbumOk \/ UpsertAlbumFail
    \/ CreateAlbumArtistRelationsOk \/ CreateAlbumArtistRelationsFail
    \/ UpsertTrackOk \/ UpsertTrackFail
    \/ CreateTrackArtistRelationsOk \/ CreateTrackArtistRelationsFail
    \/ CreatePlaylistTrackRelationsOk \/ CreatePlaylistTrackRelationsFail
    \/ DisplaySummary

Spec == Init /\ [][Next]_vars

\* a step of a running import: the call the run is waiting for returns or fails
RunStep ==
    \/ MainFail
    \/ GetAccessTokenOk \/ GetAccessTokenFail
    \/ FetchMetaOk \/ FetchMetaFail \/ FetchPageOk \/ FetchPageFail \/ FetchReturn
    \/ UpsertPlaylistOk \/ UpsertPlaylistFail
    \/ UpsertArtistOk \/ UpsertArtistFail
    \/ UpsertAlbumOk \/ UpsertAlbumFail
    \/ CreateAlbumArtistRelationsOk \/ CreateAlbumArtistRelationsFail
    \/ UpsertTrackOk \/ UpsertTrackFail
    \/ CreateTrackArtistRelationsOk \/ CreateTrackArtistRelationsFail
    \/ CreatePlaylistTrackRelationsOk \/ CreatePlaylistTrackRelationsFail
    \/ DisplaySummary

\* the import under the assumption that every awaited call returns or fails
SpecFair == Spec /\ WF_vars(RunStep)

(***************************************************************************)
(* The import of the three-track playlist into an empty store              *)
(***************************************************************************)
\* the playlist holds t1, t2 (artist A, album X) and t3 (artist B, album Y),
\* in any order
ExampleSources ==
    [items : {q \in SeqsUpTo(TrackIds, Cardinality(TrackIds)) :
                 Len(q) = Cardinality(TrackIds) /\ Range(q) = TrackIds},
     ver : 1..MaxVer]

EmptyDb == <<{}, {}, {}, {}, {}, {}, {}, {}, {}>>

\* main() started on the empty store
MainExample ==
    /\ dbVars = EmptyDb
    /\ MainOn(ExampleSources)

NextExample ==
    \/ MainExample \/ MainFail \/ ProcessExit
    \/ GetAccessTokenOk \/ GetAccessTokenFail
    \/ FetchMetaOk \/ FetchMetaFail \/ FetchPageOk \/ FetchPageFail \/ FetchReturn
    \/ UpsertPlaylistOk \/ UpsertPlaylistFail
    \/ UpsertArtistOk \/ UpsertArtistFail
    \/ UpsertAlbumOk \/ UpsertAlbumFail
    \/ CreateAlbumArtistRelationsOk \/ CreateAlbumArtistRelationsFail
    \/ UpsertTrackOk \/ UpsertTrackFail
    \/ CreateTrackArtistRelationsOk \/ CreateTrackArtistRelationsFail
    \/ CreatePlaylistTrackRelationsOk \/ CreatePlaylistTrackRelationsFail
    \/ DisplaySummary

SpecExample == Init /\ [][NextExample]_vars

(***************************************************************************)
(* album-cover-seeder.js: covers for the albums already in the store       *)
(***************************************************************************)
seederVars == <<source, limit, totalTracks, offset, allTracks, i, j, artistIds,
                processedAlbum, processedData, summary, dbAtStart, prev, lastUpsert,
                coverCalls, requests, serviceVars>>
catalogTables == <<artists, albums, tracks, playlists, albumArtists, trackArtists,
                   playlistTracks>>

\* the stores a playlist import leaves for a set of albums: the albums and their
\* artists are stored, no cover has been archived
InitCover ==
    /\ \E S \in SUBSET AlbumIds, v \in 1..MaxVer :
          /\ albums = {[id |-> NewId(a), spotify_id |-> a, name |-> v,
                         created_at |-> 0, updated_at |-> 0] : a \in S}
          /\ artists = {[id |-> NewId(IF a = "X" THEN "A" ELSE "B"),
                          spotify_id |-> IF a = "X" THEN "A" ELSE "B",
                          name |-> v, created_at |-> 0, updated_at |-> 0] : a \in S}
    /\ tracks = {} /\ playlists = {}
    /\ albumArtists = {} /\ trackArtists = {} /\ playlistTracks = {}
    /\ media = {} /\ blobs = {}
    /\ containerConfigured = TRUE
    /\ brokenImages \in BOOLEAN
    /\ stats = ZeroStats /\ calbums = <<>> /\ ci = 0
    /\ pc = "idle"
    /\ source = [items |-> <<>>, ver |-> 1]
    /\ limit = 0
    /\ accessToken = None
    /\ totalTracks = 0 /\ offset = 0 /\ allTracks = <<>>
    /\ i = 0 /\ j = 0 /\ artistIds = <<>> /\ processedAlbum = <<>>
    /\ processedData = EmptyData
    /\ exitCode = 0
    /\ summary = None
    /\ runs = 0
    /\ errorLog = {}
    /\ dbAtStart = <<>>
    /\ prev = NoPrev
    /\ lastUpsert = NoUpsert
    /\ coverCalls = ZeroCount
    /\ downloads = ZeroCount
    /\ uploads = ZeroCount
    /\ requests = <<>>
    /\ ServiceIdle

\* a new process, a new AlbumCoverSeeder (the module exits at load without
\* AZURE_STORAGE_CONNECTION_STRING)
CoverMain ==
    /\ pc = "idle"
    /\ runs < MaxRuns
    /\ containerConfigured
    /\ runs' = runs + 1
    /\ stats' = ZeroStats
    /\ pc' = "c_container"
    /\ UNCHANGED <<dbVars, envVars, shopVars, seederVars, accessToken, exitCode, calbums, ci,
                   errorLog, downloads, uploads>>

\* the process ends; its memory is gone, the stores stay
CoverExit ==
    /\ pc \in {"done", "aborted"}
    /\ pc' = "idle"
    /\ stats' = ZeroStats /\ calbums' = <<>> /\ ci' = 0
    /\ accessToken' = None
    /\ exitCode' = 0
    /\ errorLog' = {}
    /\ downloads' = ZeroCount /\ uploads' = ZeroCount
    /\ UNCHANGED <<dbVars, envVars, shopVars, seederVars, runs>>

\* an error thrown out of processAllAlbums: main's catch, process.exit(1)
CoverAbort(stage) ==
    /\ Abort(stage)
    /\ UNCHANGED <<dbVars, envVars, shopVars, seederVars, accessToken, stats, calbums, ci, runs,
                   downloads, uploads>>

EnsureContainerOk ==
    /\ pc = "c_container"
    /\ pc' = "c_albums"
    /\ UNCHANGED <<dbVars, envVars, shopVars, seederVars, accessToken, exitCode, stats, calbums, ci,
                   runs, errorLog, downloads, uploads>>

EnsureContainerFail ==
    /\ pc = "c_container"
    /\ CoverAbort("container")

\* prisma.album.findMany, orderBy name asc: any order of the rows sorted by name
SortedAlbums(table) ==
    {q \in SeqsUpTo(table, Cardinality(table)) :
        /\ Len(q) = Cardinality(table)
        /\ Range(q) = table
        /\ \A m, n \in 1..Len(q) : m < n => q[m].name <= q[n].name}

\* getAlbumsFromDatabase; with no album processAllAlbums returns at once
GetAlbumsOk ==
    /\ pc = "c_albums"
    /\ \E q \in SortedAlbums(albums) :
          /\ calbums' = q
          /\ stats' = [stats EXCEPT !.total = Len(q)]
          /\ IF Len(q) = 0
             THEN pc' = "done" /\ ci' = 0
             ELSE pc' = "c_album" /\ ci' = 1
    /\ UNCHANGED <<dbVars, envVars, shopVars, seederVars, accessToken, exitCode, runs, errorLog,
                   downloads, uploads>>

GetAlbumsFail ==
    /\ pc = "c_albums"
    /\ CoverAbort("albums")

CurrentAlbum == calbums[ci]

\* ExistingMedia that never finds a cover
ExistingMediaNone(table, albumId) == {}

\* processAlbum line 196: prisma.media.findFirst({ album_id, type: 'album_cover' })
ExistingMedia(table, albumId) ==
    {m \in table : m.album_id = albumId /\ m.type = "album_cover"}

\* Failed that counts the failure and keeps no message
FailedUnlogged(st, message) == [st EXCEPT !.failed = @ + 1]

\* processAlbum's catch and its two failure returns: failed++, errors.push
Failed(st, message) == [st EXCEPT !.failed = @ + 1, !.errors = Append(@, message)]

\* FinishAlbum that leaves the loop after an album that failed
FinishAlbumStopOnFailure(st) ==
    /\ stats' = [st EXCEPT !.processed = @ + 1]
    /\ IF ci < Len(calbums) /\ st.failed = stats.failed
       THEN ci' = ci + 1 /\ pc' = "c_album"
       ELSE ci' = ci /\ pc' = "done"

\* the end of one loop iteration: processed++, then the next album or the summary
FinishAlbum(st) ==
    /\ stats' = [st EXCEPT !.processed = @ + 1]
    /\ IF ci < Len(calbums)
       THEN ci' = ci + 1 /\ pc' = "c_album"
       ELSE ci' = ci /\ pc' = "done"

\* an existing cover: skipped++, nothing fetched
ProcessAlbumSkip ==
    /\ pc = "c_album"
    /\ ExistingMedia(media, CurrentAlbum.id) # {}
    /\ FinishAlbum([stats EXCEPT !.skipped = @ + 1])
    /\ UNCHANGED <<dbVars, envVars, shopVars, seederVars, accessToken, exitCode, calbums, runs,
                   errorLog, downloads, uploads>>

\* media.findFirst throws
ProcessAlbumLookupFail ==
    /\ pc = "c_album"
    /\ FinishAlbum(Failed(stats, "lookup"))
    /\ UNCHANGED <<dbVars, envVars, shopVars, seederVars, accessToken, exitCode, calbums, runs,
                   errorLog, downloads, uploads>>

\* fetchAlbumFromSpotify: no valid token cached and the exchange fails
ProcessAlbumTokenFail ==
    /\ pc = "c_album"
    /\ ExistingMedia(media, CurrentAlbum.id) = {}
    /\ accessToken = None
    /\ FinishAlbum(Failed(stats, "token"))
    /\ UNCHANGED <<dbVars, envVars, shopVars, seederVars, accessToken, exitCode, calbums, runs,
                   errorLog, downloads, uploads>>

\* fetchAlbumFromSpotify: the album request answers 404 (null) or fails
ProcessAlbumFetchFail ==
    /\ pc = "c_album"
    /\ ExistingMedia(media, CurrentAlbum.id) = {}
    /\ accessToken' = "token"
    /\ \E message \in {"Spotify fetch failed", "request"} :
          FinishAlbum(Failed(stats, message))
    /\ UNCHANGED <<dbVars, envVars, shopVars, seederVars, exitCode, calbums, runs,
                   errorLog, downloads, uploads>>

\* the album fetched from the external API
SpotifyAlbum == AlbumData(CurrentAlbum.spotify_id, CurrentAlbum.name)

\* downloadAndStoreAlbumCover returns null: the album has no image
ProcessAlbumNoCover ==
    /\ pc = "c_album"
    /\ ExistingMedia(media, CurrentAlbum.id) = {}
    /\ accessToken' = "token"
    /\ Len(SpotifyAlbum.images) = 0
    /\ FinishAlbum(Failed(stats, "No cover available"))
    /\ UNCHANGED <<dbVars, envVars, shopVars, seederVars, exitCode, calbums, runs,
                   errorLog, downloads, uploads>>

\* the image download throws
ProcessAlbumDownloadFail ==
    /\ pc = "c_album"
    /\ ExistingMedia(media, CurrentAlbum.id) = {}
    /\ accessToken' = "token"
    /\ Len(SpotifyAlbum.images) > 0
    /\ downloads' = [downloads EXCEPT ![CurrentAlbum.spotify_id] = @ + 1]
    /\ FinishAlbum(Failed(stats, "download"))
    /\ UNCHANGED <<dbVars, envVars, shopVars, seederVars, exitCode, calbums, runs,
                   errorLog, uploads>>

\* the blob upload throws
ProcessAlbumUploadFail ==
    /\ pc = "c_album"
    /\ ExistingMedia(media, CurrentAlbum.id) = {}
    /\ accessToken' = "token"
    /\ Len(SpotifyAlbum.images) > 0
    /\ ~brokenImages
    /\ downloads' = [downloads EXCEPT ![CurrentAlbum.spotify_id] = @ + 1]
    /\ uploads' = [uploads EXCEPT ![CurrentAlbum.spotify_id] = @ + 1]
    /\ FinishAlbum(Failed(stats, "upload"))
    /\ UNCHANGED <<dbVars, envVars, shopVars, seederVars, exitCode, calbums, runs, errorLog>>

\* the blob is stored, media.create throws (a store error, or the unique key)
ProcessAlbumMediaFail ==
    /\ pc = "c_album"
    /\ ExistingMedia(media, CurrentAlbum.id) = {}
    /\ accessToken' = "token"
    /\ Len(SpotifyAlbum.images) > 0
    /\ ~brokenImages
    /\ Cardinality(blobs) < MaxBlobs
    /\ downloads' = [downloads EXCEPT ![CurrentAlbum.spotify_id] = @ + 1]
    /\ uploads' = [uploads EXCEPT ![CurrentAlbum.spotify_id] = @ + 1]
    /\ blobs' = blobs \cup {Cardinality(blobs) + 1}
    /\ FinishAlbum(Failed(stats, "media"))
    /\ UNCHANGED <<catalogTables, media, envVars, shopVars, seederVars, exitCode, calbums, runs,
                   errorLog>>

\* downloaded, stored, Media row created: success++
ProcessAlbumSuccess ==
    /\ pc = "c_album"
    /\ ExistingMedia(media, CurrentAlbum.id) = {}
    /\ accessToken' = "token"
    /\ Len(SpotifyAlbum.images) > 0
    /\ ~brokenImages
    /\ Cardinality(blobs) < MaxBlobs
    /\ MediaKeyFree(media, CurrentAlbum.id, "album_cover")
    /\ downloads' = [downloads EXCEPT ![CurrentAlbum.spotify_id] = @ + 1]
    /\ uploads' = [uploads EXCEPT ![CurrentAlbum.spotify_id] = @ + 1]
    /\ blobs' = blobs \cup {Cardinality(blobs) + 1}
    /\ media' = media \cup {[album_id |-> CurrentAlbum.id, type |-> "album_cover",
                              filename |-> Cardinality(blobs) + 1]}
    /\ FinishAlbum([stats EXCEPT !.success = @ + 1])
    /\ UNCHANGED <<catalogTables, envVars, shopVars, seederVars, exitCode, calbums, runs, errorLog>>

NextCover ==
    \/ CoverMain \/ CoverExit
    \/ EnsureContainerOk \/ EnsureContainerFail
    \/ GetAlbumsOk \/ GetAlbumsFail
    \/ ProcessAlbumSkip \/ ProcessAlbumLookupFail \/ ProcessAlbumTokenFail
    \/ ProcessAlbumFetchFail \/ ProcessAlbumNoCover \/ ProcessAlbumDownloadFail
    \/ ProcessAlbumUploadFail \/ ProcessAlbumMediaFail \/ ProcessAlbumSuccess

SpecCover == InitCover /\ [][NextCover]_vars

(***************************************************************************)
(* The clock, and the linking methods called on their own                  *)
(***************************************************************************)
\* time passes: Date.now() / new Date() / CURRENT_TIMESTAMP read a later instant
Tick ==
    /\ now < MaxNow * 1000
    /\ now' = now + 1000
    /\ UNCHANGED <<dbVars, envVars, shopVars, runVars, coverVars, obsVars, requests, call,
                   tokenExpiry, skipChecks, healthCheck, response>>

\* the stores with the artists, albums and tracks of the playlist <<t1, t3>>
\* upserted, not linked
InitLink ==
    /\ artists = {[id |-> NewId(a), spotify_id |-> a, name |-> 1,
                   created_at |-> 0, updated_at |-> 0] : a \in ArtistIds}
    /\ albums = {[id |-> NewId(a), spotify_id |-> a, name |-> 1,
                  created_at |-> 0, updated_at |-> 0] : a \in AlbumIds}
    /\ tracks = {[id |-> NewId(t), spotify_id |-> t, name |-> 1,
                  album_id |-> NewId(AlbumOf(t)),
                  created_at |-> 0, updated_at |-> 0] : t \in {"t1", "t3"}}
    /\ playlists = {}
    /\ albumArtists = {} /\ trackArtists = {} /\ playlistTracks = {}
    /\ media = {} /\ blobs = {}
    /\ containerConfigured = FALSE
    /\ brokenImages = FALSE
    /\ stats = ZeroStats /\ calbums = <<>> /\ ci = 0
    /\ pc = "idle"
    /\ source = [items |-> <<>>, ver |-> 1]
    /\ limit = 0
    /\ accessToken = None
    /\ totalTracks = 0 /\ offset = 0 /\ allTracks = <<>>
    /\ i = 0 /\ j = 0 /\ artistIds = <<>> /\ processedAlbum = <<>>
    /\ processedData = EmptyData
    /\ exitCode = 0
    /\ summary = None
    /\ runs = 0
    /\ errorLog = {}
    /\ dbAtStart = <<>>
    /\ prev = NoPrev
    /\ lastUpsert = NoUpsert
    /\ coverCalls = ZeroCount
    /\ downloads = ZeroCount
    /\ uploads = ZeroCount
    /\ requests = <<>>
    /\ ServiceIdle

linkFrame == <<artists, albums, tracks, playlists, playlistTracks, media, blobs,
               envVars, shopVars, runVars, coverVars, obsVars, requests,
               now, tokenExpiry, skipChecks, healthCheck, response>>

\* the record of a linking call: failedAt = 0 when every upsert succeeded
LinkCall(op, parent, ids, failedAt, before) ==
    [op |-> op, n |-> call.n + 1, parent |-> parent, ids |-> ids, failedAt |-> failedAt,
     threw |-> failedAt > 0, at |-> now, before |-> before]

\* createAlbumArtistRelations(albumId, artistIds) returns
CreateAlbumArtistRelationsCall ==
    /\ call.n < MaxCalls
    /\ \E albumId \in {r.id : r \in albums}, ids \in SeqsUpTo({r.id : r \in artists}, MaxIds) :
          /\ albumArtists' = LinkAlbumArtists(albumArtists, albumId, ids, Len(ids), now)
          /\ call' = LinkCall("albumArtists", albumId, ids, 0, albumArtists)
    /\ UNCHANGED <<linkFrame, trackArtists>>

\* createAlbumArtistRelations(albumId, artistIds): the upsert of the k-th id throws
CreateAlbumArtistRelationsThrow ==
    /\ call.n < MaxCalls
    /\ \E albumId \in {r.id : r \in albums}, ids \in SeqsUpTo({r.id : r \in artists}, MaxIds) :
          \E k \in 1..Len(ids) :
             /\ albumArtists' = LinkError(albumArtists,
                                   LinkAlbumArtists(albumArtists, albumId, ids, k - 1, now))
             /\ call' = LinkCall("albumArtists", albumId, ids, k, albumArtists)
    /\ UNCHANGED <<linkFrame, trackArtists>>

\* createTrackArtistRelations(trackId, artistIds) returns
CreateTrackArtistRelationsCall ==
    /\ call.n < MaxCalls
    /\ \E trackId \in {r.id : r \in tracks}, ids \in SeqsUpTo({r.id : r \in artists}, MaxIds) :
          /\ trackArtists' = LinkTrackArtists(trackArtists, trackId, ids, Len(ids), now)
          /\ call' = LinkCall("trackArtists", trackId, ids, 0, trackArtists)
    /\ UNCHANGED <<linkFrame, albumArtists>>

\* createTrackArtistRelations(trackId, artistIds): the upsert of the k-th id throws
CreateTrackArtistRelationsThrow ==
    /\ call.n < MaxCalls
    /\ \E trackId \in {r.id : r \in tracks}, ids \in SeqsUpTo({r.id : r \in artists}, MaxIds) :
          \E k \in 1..Len(ids) :
             /\ trackArtists' = LinkError(trackArtists,
                                   LinkTrackArtists(trackArtists, trackId, ids, k - 1, now))
             /\ call' = LinkCall("trackArtists", trackId, ids, k, trackArtists)
    /\ UNCHANGED <<linkFrame, albumArtists>>

NextLink ==
    \/ Tick
    \/ CreateAlbumArtistRelationsCall \/ CreateAlbumArtistRelationsThrow
    \/ CreateTrackArtistRelationsCall \/ CreateTrackArtistRelationsThrow

SpecLink == InitLink /\ [][NextLink]_vars

(***************************************************************************)
(* The upsert methods called on their own, on a store an import has filled *)
(***************************************************************************)
\* the store after the import of the playlist <<t1, t3>> at time 0
InitUpsert ==
    /\ artists = {[id |-> NewId(a), spotify_id |-> a, name |-> 1,
                   created_at |-> 0, updated_at |-> 0] : a \in ArtistIds}
    /\ albums = {[id |-> NewId(a), spotify_id |-> a, name |-> 1,
                  created_at |-> 0, updated_at |-> 0] : a \in AlbumIds}
    /\ tracks = {[id |-> NewId(t), spotify_id |-> t, name |-> 1,
                  album_id |-> NewId(AlbumOf(t)),
                  created_at |-> 0, updated_at |-> 0] : t \in {"t1", "t3"}}
    /\ playlists = {[id |-> NewId(PLAYLIST_ID), spotify_id |-> PLAYLIST_ID, name |-> 1,
                     total_tracks |-> 2, created_at |-> 0, updated_at |-> 0]}
    /\ albumArtists = {[album_id |-> NewId(AlbumOf(t)), artist_id |-> NewId(ArtistsOf(t)[1]),
                        created_at |-> 0] : t \in {"t1", "t3"}}
    /\ trackArtists = {[track_id |-> NewId(t), artist_id |-> NewId(ArtistsOf(t)[1]),
                        created_at |-> 0] : t \in {"t1", "t3"}}
    /\ playlistTracks = {[playlist_id |-> NewId(PLAYLIST_ID), track_id |-> NewId("t1"),
                          position |-> 1, added_at |-> 1],
                         [playlist_id |-> NewId(PLAYLIST_ID), track_id |-> NewId("t3"),
                          position |-> 2, added_at |-> 1]}
    /\ media = {} /\ blobs = {}
    /\ containerConfigured = FALSE
    /\ brokenImages = FALSE
    /\ stats = ZeroStats /\ calbums = <<>> /\ ci = 0
    /\ pc = "idle"
    /\ source = [items |-> <<>>, ver |-> 1]
    /\ limit = 0
    /\ accessToken = None
    /\ totalTracks = 0 /\ offset = 0 /\ allTracks = <<>>
    /\ i = 0 /\ j = 0 /\ artistIds = <<>> /\ processedAlbum = <<>>
    /\ processedData = EmptyData
    /\ exitCode = 0
    /\ summary = None
    /\ runs = 0
    /\ errorLog = {}
    /\ dbAtStart = <<>>
    /\ prev = NoPrev
    /\ lastUpsert = NoUpsert
    /\ coverCalls = ZeroCount
    /\ downloads = ZeroCount
    /\ uploads = ZeroCount
    /\ requests = <<>>
    /\ ServiceIdle

upsertFrame == <<albumArtists, trackArtists, playlistTracks, media, blobs, envVars, shopVars,
                 runVars, coverVars, runs, errorLog, dbAtStart, prev, coverCalls,
                 downloads, uploads, requests, now, tokenExpiry, skipChecks,
                 healthCheck, response>>

\* the record of an upsert call: existed tells the branch the store took
UpsertCall(op, table, sid, albumId) ==
    [op |-> op, n |-> call.n + 1, sid |-> sid, albumId |-> albumId,
     existed |-> FindBySpotifyId(table, sid) # {}, threw |-> FALSE, at |-> now]

\* upsertArtist(artistData) returns
UpsertArtistCall ==
    /\ call.n < MaxCalls
    /\ \E a \in ArtistIds, v \in 1..MaxVer :
          /\ artists' = UpsertArtist(artists, ArtistData(a, v), now)
          /\ call' = UpsertCall("upsertArtist", artists, a, <<>>)
          /\ lastUpsert' = [table |-> "artist", sid |-> a, name |-> v,
                           renamed |-> Renames(artists, a, v)]
    /\ UNCHANGED <<upsertFrame, albums, tracks, playlists>>

\* upsertAlbum(albumData) returns
UpsertAlbumCall ==
    /\ call.n < MaxCalls
    /\ \E a \in AlbumIds, v \in 1..MaxVer :
          /\ albums' = UpsertAlbum(albums, AlbumData(a, v), now)
          /\ call' = UpsertCall("upsertAlbum", albums, a, <<>>)
          /\ lastUpsert' = [table |-> "album", sid |-> a, name |-> v,
                           renamed |-> Renames(albums, a, v)]
    /\ UNCHANGED <<upsertFrame, artists, tracks, playlists>>

\* upsertTrack(trackData, albumId) returns; albumId is the id of a stored album
UpsertTrackCall ==
    /\ call.n < MaxCalls
    /\ \E t \in TrackIds, v \in 1..MaxVer, albumId \in {r.id : r \in albums} :
          /\ tracks' = UpsertTrack(tracks, TrackData(t, v), albumId, now)
          /\ call' = UpsertCall("upsertTrack", tracks, t, albumId)
          /\ lastUpsert' = [table |-> "track", sid |-> t, name |-> v,
                           renamed |-> Renames(tracks, t, v)]
    /\ UNCHANGED <<upsertFrame, artists, albums, playlists>>

\* upsertPlaylist(playlistData) returns
UpsertPlaylistCall ==
    /\ call.n < MaxCalls
    /\ \E v \in 1..MaxVer, items \in SeqsUpTo(TrackIds, MaxLen) :
          /\ playlists' = UpsertPlaylist(playlists, PlaylistData(v, items), now)
          /\ call' = UpsertCall("upsertPlaylist", playlists, PLAYLIST_ID, <<>>)
          /\ lastUpsert' = [table |-> "playlist", sid |-> PLAYLIST_ID, name |-> v,
                           renamed |-> Renames(playlists, PLAYLIST_ID, v)]
    /\ UNCHANGED <<upsertFrame, artists, albums, tracks>>

\* the store rejects the upsert: the catch logs and rethrows, nothing is written
UpsertThrow ==
    /\ call.n < MaxCalls
    /\ \E op \in {"upsertArtist", "upsertAlbum", "upsertTrack", "upsertPlaylist"} :
          call' = [op |-> op, n |-> call.n + 1, sid |-> None, albumId |-> <<>>,
                   existed |-> FALSE, threw |-> TRUE, at |-> now]
    /\ UNCHANGED <<upsertFrame, artists, albums, tracks, playlists, lastUpsert>>

NextUpsert ==
    \/ Tick
    \/ UpsertArtistCall \/ UpsertAlbumCall \/ UpsertTrackCall \/ UpsertPlaylistCall
    \/ UpsertThrow

SpecUpsert == InitUpsert /\ [][NextUpsert]_vars

(***************************************************************************)
(* getAccessToken called again and again on one seeder instance            *)
(***************************************************************************)
\* the access_token values the token endpoint may answer
Tokens == {"token", "token2"}

\* TokenValid that trusts any cached token, whatever its expiry
TokenCachedForever(token, expiry, t) == token # None

\* this.accessToken && this.tokenExpiry && Date.now() < this.tokenExpiry
\* (null and 0 are both falsy; tokenExpiry = 0 stands for null)
TokenValid(token, expiry, t) == token # None /\ expiry # 0 /\ t < expiry

\* Date.now() + (response.data.expires_in * 1000): milliseconds from seconds
TokenExpiry(t, expiresIn) == t + expiresIn * 1000

\* a new seeder instance: nothing cached; the stores play no part
InitToken ==
    /\ artists = {} /\ albums = {} /\ tracks = {} /\ playlists = {}
    /\ albumArtists = {} /\ trackArtists = {} /\ playlistTracks = {}
    /\ media = {} /\ blobs = {}
    /\ containerConfigured = FALSE
    /\ brokenImages = FALSE
    /\ stats = ZeroStats /\ calbums = <<>> /\ ci = 0
    /\ pc = "idle"
    /\ source = [items |-> <<>>, ver |-> 1]
    /\ limit = 0
    /\ accessToken = None
    /\ totalTracks = 0 /\ offset = 0 /\ allTracks = <<>>
    /\ i = 0 /\ j = 0 /\ artistIds = <<>> /\ processedAlbum = <<>>
    /\ processedData = EmptyData
    /\ exitCode = 0
    /\ summary = None
    /\ runs = 0
    /\ errorLog = {}
    /\ dbAtStart = <<>>
    /\ prev = NoPrev
    /\ lastUpsert = NoUpsert
    /\ coverCalls = ZeroCount
    /\ downloads = ZeroCount
    /\ uploads = ZeroCount
    /\ requests = <<>>
    /\ ServiceIdle

tokenFrame == <<dbVars, envVars, shopVars, source, limit, totalTracks, offset, allTracks, i, j,
                artistIds, processedAlbum, processedData, exitCode, summary, coverVars,
                obsVars, requests, now, skipChecks, healthCheck, response>>

\* the record of a getAccessToken call, taken when the cache is checked
TokenCall(requested) ==
    [op |-> "getAccessToken", n |-> call.n + 1, requested |-> requested,
     done |-> ~requested, threw |-> FALSE,
     cachedBefore |-> accessToken, expiryBefore |-> tokenExpiry, checkedAt |-> now,
     at |-> now, returned |-> IF requested THEN None ELSE accessToken, expires_in |-> 0,
     sent |-> IF requested THEN 1 ELSE 0, malformed |-> FALSE]

\* the cached token is valid: return this.accessToken, no request
GetAccessTokenCached ==
    /\ pc = "idle"
    /\ call.n < MaxCalls
    /\ TokenValid(accessToken, tokenExpiry, now)
    /\ call' = TokenCall(FALSE)
    /\ UNCHANGED <<tokenFrame, pc, accessToken, tokenExpiry>>

\* no valid token: axios.post to the token endpoint is sent
GetAccessTokenRequest ==
    /\ pc = "idle"
    /\ call.n < MaxCalls
    /\ ~TokenValid(accessToken, tokenExpiry, now)
    /\ call' = TokenCall(TRUE)
    /\ pc' = "token"
    /\ UNCHANGED <<tokenFrame, accessToken, tokenExpiry>>

\* the endpoint answers access_token and expires_in: both are cached
GetAccessTokenResponse ==
    /\ pc = "token"
    /\ \E tok \in Tokens, e \in 1..MaxExpiresIn :
          /\ accessToken' = tok
          /\ tokenExpiry' = TokenExpiry(now, e)
          /\ call' = [call EXCEPT !.done = TRUE, !.at = now, !.returned = tok,
                                  !.expires_in = e]
    /\ pc' = "idle"
    /\ UNCHANGED tokenFrame

\* the exchange fails: the catch logs and rethrows, the cache is as it was
GetAccessTokenThrow ==
    /\ pc = "token"
    /\ call' = [call EXCEPT !.done = TRUE, !.at = now, !.threw = TRUE]
    /\ pc' = "idle"
    /\ UNCHANGED <<tokenFrame, accessToken, tokenExpiry>>

NextToken ==
    \/ Tick
    \/ GetAccessTokenCached \/ GetAccessTokenRequest
    \/ GetAccessTokenResponse \/ GetAccessTokenThrow

SpecToken == InitToken /\ [][NextToken]_vars

\* the endpoint answers 2xx with a body lacking access_token, expires_in or both:
\* response.data.access_token is undefined (None), undefined * 1000 is NaN (a
\* falsy expiry, 0 here); both are stored and this.accessToken is returned
GetAccessTokenMalformed ==
    /\ pc = "token"
    /\ \E tok \in Tokens \cup {None}, hasExpiresIn \in BOOLEAN, e \in 1..MaxExpiresIn :
          /\ tok = None \/ ~hasExpiresIn
          /\ accessToken' = tok
          /\ tokenExpiry' = IF hasExpiresIn THEN TokenExpiry(now, e) ELSE 0
          /\ call' = [call EXCEPT !.done = TRUE, !.at = now, !.returned = tok,
                                  !.expires_in = IF hasExpiresIn THEN e ELSE 0,
                                  !.malformed = TRUE]
    /\ pc' = "idle"
    /\ UNCHANGED tokenFrame

NextTokenFailure == NextToken \/ GetAccessTokenMalformed

\* getAccessToken against an endpoint that may also answer a malformed body
SpecTokenFailure == InitToken /\ [][NextTokenFailure]_vars

(***************************************************************************)
(* server.js: GET /health                                                  *)
(***************************************************************************)
\* HttpStatus that answers 200 whatever the status
HttpStatusAlwaysOk(status) == 200

\* const httpStatus = healthCheck.status === 'ok' ? 200 : 503
HttpStatus(status) == IF status = "ok" THEN 200 ELSE 503

\* a server process: SKIP_DB_CHECK / SKIP_BLOB_CHECK set or not, containerClient
\* created or null; the stores play no part
InitHealth ==
    /\ artists = {} /\ albums = {} /\ tracks = {} /\ playlists = {}
    /\ albumArtists = {} /\ trackArtists = {} /\ playlistTracks = {}
    /\ media = {} /\ blobs = {}
    /\ containerConfigured \in BOOLEAN
    /\ brokenImages = FALSE
    /\ stats = ZeroStats /\ calbums = <<>> /\ ci = 0
    /\ pc = "idle"
    /\ source = [items |-> <<>>, ver |-> 1]
    /\ limit = 0
    /\ accessToken = None
    /\ totalTracks = 0 /\ offset = 0 /\ allTracks = <<>>
    /\ i = 0 /\ j = 0 /\ artistIds = <<>> /\ processedAlbum = <<>>
    /\ processedData = EmptyData
    /\ exitCode = 0
    /\ summary = None
    /\ runs = 0
    /\ errorLog = {}
    /\ dbAtStart = <<>>
    /\ prev = NoPrev
    /\ lastUpsert = NoUpsert
    /\ coverCalls = ZeroCount
    /\ downloads = ZeroCount
    /\ uploads = ZeroCount
    /\ requests = <<>>
    /\ ShopIdle
    /\ call = NoCall
    /\ now = 0
    /\ tokenExpiry = 0
    /\ skipChecks \in [db : BOOLEAN, blob : BOOLEAN]
    /\ healthCheck = NoHealthCheck
    /\ response = NoResponse

healthFrame == <<dbVars, envVars, shopVars, source, limit, accessToken, totalTracks, offset,
                 allTracks, i, j, artistIds, processedAlbum, processedData, exitCode,
                 summary, coverVars, obsVars, requests, now, tokenExpiry, skipChecks>>

\* a GET /health request reaches the handler
HealthRequest ==
    /\ pc = "idle"
    /\ call.n < MaxCalls
    /\ call' = [op |-> "health", n |-> call.n + 1]
    /\ response' = NoResponse
    /\ healthCheck' = NoHealthCheck
    /\ pc' = "h_start"
    /\ UNCHANGED healthFrame

\* const healthCheck = { status: 'ok', timestamp: new Date().toISOString(), ... }
HealthStart ==
    /\ pc = "h_start"
    /\ healthCheck' = [status |-> "ok", timestamp |-> now,
                       database |-> None, blobStorage |-> None]
    /\ pc' = "h_db"
    /\ UNCHANGED <<healthFrame, call, response>>

\* the outer catch: 503 with status 'error'
HealthError ==
    /\ pc = "h_start"
    /\ response' = [code |-> 503,
                    body |-> [status |-> "error", timestamp |-> now, error |-> "message"]]
    /\ pc' = "idle"
    /\ UNCHANGED <<healthFrame, call, healthCheck>>

\* SKIP_DB_CHECK === 'true'
HealthDbSkipped ==
    /\ pc = "h_db"
    /\ skipChecks.db
    /\ healthCheck' = [healthCheck EXCEPT !.database = "skipped"]
    /\ pc' = "h_blob"
    /\ UNCHANGED <<healthFrame, call, response>>

\* SELECT 1 answers
HealthDbConnected ==
    /\ pc = "h_db"
    /\ ~skipChecks.db
    /\ healthCheck' = [healthCheck EXCEPT !.database = "connected"]
    /\ pc' = "h_blob"
    /\ UNCHANGED <<healthFrame, call, response>>

\* SELECT 1 throws
HealthDbDisconnected ==
    /\ pc = "h_db"
    /\ ~skipChecks.db
    /\ healthCheck' = [healthCheck EXCEPT !.database = "disconnected",
                                          !.status = "degraded"]
    /\ pc' = "h_blob"
    /\ UNCHANGED <<healthFrame, call, response>>

\* SKIP_BLOB_CHECK === 'true'
HealthBlobSkipped ==
    /\ pc = "h_blob"
    /\ skipChecks.blob
    /\ healthCheck' = [healthCheck EXCEPT !.blobStorage = "skipped"]
    /\ pc' = "h_respond"
    /\ UNCHANGED <<healthFrame, call, response>>

\* containerClient.exists() answers
HealthBlobConnected ==
    /\ pc = "h_blob"
    /\ ~skipChecks.blob /\ containerConfigured
    /\ healthCheck' = [healthCheck EXCEPT !.blobStorage = "connected"]
    /\ pc' = "h_respond"
    /\ UNCHANGED <<healthFrame, call, response>>

\* containerClient.exists() throws
HealthBlobDisconnected ==
    /\ pc = "h_blob"
    /\ ~skipChecks.blob /\ containerConfigured
    /\ healthCheck' = [healthCheck EXCEPT !.blobStorage = "disconnected",
                                          !.status = "degraded"]
    /\ pc' = "h_respond"
    /\ UNCHANGED <<healthFrame, call, response>>

\* no containerClient: disconnected; status 'ok' becomes 'degraded'
HealthBlobNoClient ==
    /\ pc = "h_blob"
    /\ ~skipChecks.blob /\ ~containerConfigured
    /\ healthCheck' = [healthCheck EXCEPT
                          !.blobStorage = "disconnected",
                          !.status = IF @ = "ok" THEN "degraded" ELSE @]
    /\ pc' = "h_respond"
    /\ UNCHANGED <<healthFrame, call, response>>

\* res.status(httpStatus).json(healthCheck)
HealthRespond ==
    /\ pc = "h_respond"
    /\ response' = [code |-> HttpStatus(healthCheck.status), body |-> healthCheck]
    /\ pc' = "idle"
    /\ UNCHANGED <<healthFrame, call, healthCheck>>

NextHealth ==
    \/ Tick
    \/ HealthRequest \/ HealthStart \/ HealthError
    \/ HealthDbSkipped \/ HealthDbConnected \/ HealthDbDisconnected
    \/ HealthBlobSkipped \/ HealthBlobConnected \/ HealthBlobDisconnected
    \/ HealthBlobNoClient
    \/ HealthRespond

SpecHealth == InitHealth /\ [][NextHealth]_vars

(***************************************************************************)
(* Properties of the playlist import (spotify-seeder.js)                   *)
(***************************************************************************)

\* C1: a failing step of one record (artist upsert, album upsert, album-artist
\* link, track upsert, track-artist link) is logged and the loop goes on with the
\* next record: a record failure never aborts the run.
C1_RecordFailureIsolated == "record" \in errorLog => pc # "aborted"

\* C2: a completed import of the same source data as the previous completed
\* import leaves the same number of Artist, Album, Track, Playlist, AlbumArtist,
\* TrackArtist and PlaylistTrack rows as that import left.
C2_ImportIdempotent ==
    (pc = "done" /\ prev.valid /\ prev.source = source) => Counts = prev.counts

C2_Witness ==
    /\ pc = "done" /\ prev.valid /\ prev.source = source
    /\ Len(source.items) = 2
    /\ Cardinality(playlistTracks) >= 2

\* C3: for every album whose record the run has reached, cover archiving
\* (downloadAndStoreAlbumCover) was attempted when its first track was processed.
C3_CoverAttemptedOnFirstEncounter ==
    \A a \in processedData.albums : coverCalls[a] >= 1

\* C4: within one run the download / store-write sequence is performed at most
\* once for an album, however many tracks of the run belong to it.
C4_CoverAtMostOncePerAlbum ==
    \A a \in AlbumIds : downloads[a] <= 1 /\ uploads[a] <= 1

\* two records of the same album have passed the cover step of this run
C4_Witness ==
    /\ i = 2 /\ pc \in {"albumArtists", "track", "trackArtists"}
    /\ allTracks[1] # allTracks[2]
    /\ AlbumOf(allTracks[1]) = AlbumOf(allTracks[2])
    /\ Len(AlbumData(AlbumOf(allTracks[1]), source.ver).images) > 0
    /\ containerConfigured

\* the rows createPlaylistTrackRelations is to leave for the fetched sequence
ExpectedPlaylistRows ==
    {[playlist_id |-> IdOf(playlists, PLAYLIST_ID),
      track_id |-> IdOf(tracks, allTracks[k]),
      position |-> k,
      added_at |-> source.ver] : k \in 1..Len(allTracks)}

C6_NaturalKeyDedup ==
    /\ \A table \in {artists, albums, tracks, playlists} :
          \A r1, r2 \in table : r1.spotify_id = r2.spotify_id => r1 = r2
    /\ \A t \in {"artist", "album", "track", "playlist"} :
          lastUpsert.table = t =>
             LET table == CASE t = "artist" -> artists
                            [] t = "album" -> albums
                            [] t = "track" -> tracks
                            [] OTHER -> playlists
                 rows == FindBySpotifyId(table, lastUpsert.sid)
             IN Cardinality(rows) = 1 /\ \A r \in rows : r.name = lastUpsert.name

\* an artist stored under one name has just been upserted under another
C6_Witness == lastUpsert.table = "artist" /\ lastUpsert.renamed

\* C7: a failed token exchange ends the run with a non-success exit and the
\* stores as they were when the run started.
C7_AuthFailureBoundary ==
    "auth" \in errorLog =>
        /\ pc = "aborted" /\ exitCode = 1
        /\ dbVars = dbAtStart
        /\ processedData = EmptyData

C7_Witness == "auth" \in errorLog /\ tracks # {} /\ pc = "aborted"

\* C8: a failed metadata or page request ends the run before processTracks:
\* nothing is upserted, whatever pages were fetched before.
C8_FetchFailureBoundary ==
    "fetch" \in errorLog =>
        /\ pc = "aborted" /\ exitCode = 1
        /\ dbVars = dbAtStart
        /\ processedData = EmptyData /\ i = 0

\* the second page failed after the first was fetched
C8_Witness == "fetch" \in errorLog /\ Len(allTracks) >= 1 /\ pc = "aborted"

\* C10: when the cover of an album of the run cannot be downloaded, the run
\* still completes and the failure is recorded among the run's errors.
C10_CoverFailureRecorded ==
    (/\ pc = "done" /\ containerConfigured /\ brokenImages
     /\ \E a \in processedData.albums : Len(AlbumData(a, source.ver).images) > 0)
    => "cover" \in errorLog

IsPage(r) == r.kind = "page"
IsDelay(r) == r.kind = "delay"
\* the track-page requests and the waits of the fetch so far
PageRequests == SelectSeq(requests, IsPage)
Delays == SelectSeq(requests, IsDelay)

\* C16: when fetchPlaylist has fetched a playlist of total items with page size
\* limit, it has sent exactly ceil(total / limit) track-page requests, the k-th at
\* offset (k-1) * limit < total, and the items it returns are the playlist's items
\* in source order.
C16_PagedFetchComplete ==
    pc = "fetched" =>
        /\ Len(PageRequests) * limit >= totalTracks
        /\ (Len(PageRequests) - 1) * limit < totalTracks
        /\ \A k \in 1..Len(PageRequests) :
              /\ PageRequests[k].offset = (k - 1) * limit
              /\ PageRequests[k].offset < totalTracks
        /\ Len(allTracks) = totalTracks
        /\ allTracks = source.items

\* two pages of one item each, two different tracks
C16_Witness ==
    /\ pc = "fetched" /\ Len(PageRequests) = 2
    /\ allTracks[1] # allTracks[2]

HasCover(a) == \E m \in media : m.album_id = NewId(a) /\ m.type = "album_cover"

\* C9: once an album has an 'album_cover' Media row, no step downloads an image
\* or uploads a blob for it or changes its Media rows, and no album ever has two
\* 'album_cover' Media rows.
C9_CoveredAlbumSkipped ==
    [][/\ \A a \in AlbumIds :
            HasCover(a) =>
               /\ downloads'[a] <= downloads[a]
               /\ uploads'[a] <= uploads[a]
               /\ {m \in media' : m.album_id = NewId(a)} = {m \in media : m.album_id = NewId(a)}
       /\ \A m1, m2 \in media' :
            (m1.album_id = m2.album_id /\ m1.type = m2.type) => m1 = m2]_vars

\* a later run has met an album covered by an earlier run
C9_Witness ==
    /\ runs = 2 /\ stats.skipped >= 1 /\ stats.success = 0
    /\ HasCover("X")

\* C14: every step of processAllAlbums on an album, whatever its outcome, is
\* followed by the next album of the list, or by the summary after the last; the
\* albums are taken in list order, each is counted as processed and as exactly
\* one of success, skipped and failed, and every failure adds one entry to
\* stats.errors.
C14_CoverSeederContinues ==
    [][pc = "c_album" =>
          /\ pc' = IF ci < Len(calbums) THEN "c_album" ELSE "done"
          /\ ci < Len(calbums) => ci' = ci + 1
          /\ stats'.processed = ci
          /\ stats'.failed - stats.failed = Len(stats'.errors) - Len(stats.errors)
          /\ stats'.success + stats'.skipped + stats'.failed = stats'.processed]_vars

\* album Y, taken first, failed; album X after it was archived; summary reached
C14_Witness ==
    /\ pc = "done" /\ Len(calbums) = 2 /\ calbums[1].spotify_id = "Y"
    /\ stats.processed = 2 /\ stats.failed = 1 /\ stats.success = 1
    /\ Len(stats.errors) = 1

(***************************************************************************)
(* Properties of the linking methods                                       *)
(***************************************************************************)

\* C11: whatever linking calls have been made (repeated pairs, id lists with
\* duplicates, calls that failed half way), no (album_id, artist_id) pair has two
\* AlbumArtist rows and no (track_id, artist_id) pair has two TrackArtist rows.
C11_CompositeKeyUnique ==
    /\ \A r1, r2 \in albumArtists :
          (r1.album_id = r2.album_id /\ r1.artist_id = r2.artist_id) => r1 = r2
    /\ \A r1, r2 \in trackArtists :
          (r1.track_id = r2.track_id /\ r1.artist_id = r2.artist_id) => r1 = r2

\* a list naming an artist twice has been linked to an album that already had
\* that artist linked by an earlier call
C11_Witness ==
    /\ call.op = "albumArtists" /\ ~call.threw
    /\ Len(call.ids) = 2 /\ call.ids[1] = call.ids[2]
    /\ \E r \in call.before :
          r.album_id = call.parent /\ r.artist_id = call.ids[1] /\ r.created_at < call.at

\* the rows of the linking table the last call worked on
CallTable == IF call.op = "albumArtists" THEN albumArtists ELSE trackArtists
Linked(parent, artistId) ==
    IF call.op = "albumArtists"
    THEN \E r \in albumArtists : r.album_id = parent /\ r.artist_id = artistId
    ELSE \E r \in trackArtists : r.track_id = parent /\ r.artist_id = artistId

\* C20: when the upsert of the k-th artist id fails in a linking call, the error
\* reaches the caller, the links of the ids before k are in the store and no row
\* that was there before the call is gone.
C20_LinkingNotRolledBack ==
    (call.op \in {"albumArtists", "trackArtists"} /\ call.failedAt > 0) =>
        /\ call.threw
        /\ \A m \in 1..(call.failedAt - 1) : Linked(call.parent, call.ids[m])
        /\ call.before \subseteq CallTable

\* the second id failed after the first had been linked by this very call
C20_Witness ==
    /\ call.op = "trackArtists" /\ call.failedAt = 2
    /\ \E r \in trackArtists \ call.before :
          r.track_id = call.parent /\ r.artist_id = call.ids[1]

(***************************************************************************)
(* Properties of the token cache                                           *)
(***************************************************************************)

\* C12: a getAccessToken call sends a token request exactly when no token is
\* cached or the clock has reached the cached expiry; a call that sends none
\* returns the cached token; after a successful exchange the cached token is the
\* one answered and the cached expiry is the time of the answer plus expires_in
\* (seconds, kept as milliseconds).
C12_TokenCaching ==
    call.op = "getAccessToken" =>
        /\ call.requested <=> (call.cachedBefore = None \/ call.checkedAt >= call.expiryBefore)
        /\ ~call.requested => (call.returned = call.cachedBefore /\ call.returned # None)
        /\ (call.requested /\ call.done /\ ~call.threw) =>
              /\ accessToken = call.returned
              /\ tokenExpiry = call.at + call.expires_in * 1000

\* a cached token has run out and has been replaced by a new exchange
C12_Witness ==
    /\ call.op = "getAccessToken" /\ call.requested /\ call.done /\ ~call.threw
    /\ call.cachedBefore # None /\ call.checkedAt >= call.expiryBefore
    /\ tokenExpiry > now

(***************************************************************************)
(* The example scenario                                                    *)
(***************************************************************************)

\* C13: the completed import of the playlist of t1, t2 (artist A, album X) and
\* t3 (artist B, album Y) into an empty store leaves 2 Artist, 2 Album, 3 Track,
\* 3 TrackArtist and 2 AlbumArtist rows, at most one Media row per album, and 3
\* PlaylistTrack rows whose positions 1, 2, 3 follow the source order.
C13_ExampleScenario ==
    (pc = "done" /\ dbAtStart = EmptyDb /\ Len(source.items) = 3
     /\ Range(source.items) = TrackIds) =>
        /\ Cardinality(artists) = 2 /\ Cardinality(albums) = 2
        /\ Cardinality(tracks) = 3
        /\ Cardinality(trackArtists) = 3 /\ Cardinality(albumArtists) = 2
        /\ Cardinality(media) <= 2
        /\ \A m1, m2 \in media : m1.album_id = m2.album_id => m1 = m2
        /\ Cardinality(playlistTracks) = 3
        /\ \A k \in 1..3 :
              \E r \in playlistTracks :
                 /\ r.position = k
                 /\ r.track_id = IdOf(tracks, source.items[k])
                 /\ r.playlist_id = IdOf(playlists, PLAYLIST_ID)

\* the example import has completed, t3 first
C13_Witness ==
    /\ pc = "done" /\ dbAtStart = EmptyDb
    /\ source.items = <<"t3", "t1", "t2">>
    /\ Cardinality(tracks) = 3

(***************************************************************************)
(* Properties of GET /health                                               *)
(***************************************************************************)

\* C15: a response of GET /health has code 200 exactly when its status is 'ok'
\* and 503 otherwise; when the handler computed the status, it is 'ok' exactly
\* when neither the database nor the blob-storage check reported 'disconnected',
\* a check switched off by SKIP_DB_CHECK / SKIP_BLOB_CHECK reports 'skipped', and
\* every 200 response carries 'status' and 'timestamp'.
C15_HealthStatus ==
    response.code # 0 =>
        /\ response.code \in {200, 503}
        /\ response.code = 200 <=> response.body.status = "ok"
        /\ response.body.status # "error" =>
              /\ response.body.status = "ok" <=>
                    (/\ response.body.database # "disconnected"
                     /\ response.body.blobStorage # "disconnected")
              /\ skipChecks.db => response.body.database = "skipped"
              /\ skipChecks.blob => response.body.blobStorage = "skipped"
        /\ response.code = 200 => {"status", "timestamp"} \subseteq DOMAIN response.body

\* both checks switched off (as in the test): 200; and a later request stamped later
C15_Witness ==
    /\ response.code = 200
    /\ response.body.database = "skipped" /\ response.body.blobStorage = "skipped"
    /\ ~containerConfigured
    /\ response.body.timestamp > 0

(***************************************************************************)
(* Properties of the upsert methods                                        *)
(***************************************************************************)
\* every row of old is in new with its create timestamp and an update timestamp
\* that is not earlier
StampsKept(old, new) ==
    \A r \in old :
       \E r2 \in new :
          /\ r2.spotify_id = r.spotify_id
          /\ r2.created_at = r.created_at
          /\ r2.updated_at >= r.updated_at

UpsertOps == {"upsertArtist", "upsertAlbum", "upsertTrack", "upsertPlaylist"}

\* C18: no step changes the create timestamp of an Artist, Album, Track or
\* Playlist row or moves its update timestamp back; an upsert that found the row
\* leaves its update timestamp at the time of the call, and one that created it
\* leaves both timestamps there.
C18_Timestamps ==
    [][/\ StampsKept(artists, artists') /\ StampsKept(albums, albums')
       /\ StampsKept(tracks, tracks') /\ StampsKept(playlists, playlists')
       /\ (call'.op \in UpsertOps /\ ~call'.threw) =>
             LET rows == CASE call'.op = "upsertArtist" -> artists'
                           [] call'.op = "upsertAlbum" -> albums'
                           [] call'.op = "upsertTrack" -> tracks'
                           [] OTHER -> playlists'
             IN \A r \in rows :
                   r.spotify_id = call'.sid =>
                      /\ r.updated_at = call'.at
                      /\ ~call'.existed => r.created_at = call'.at]_vars

\* a row created at time 0 has been updated by a later upsert
C18_Witness ==
    /\ call.op = "upsertPlaylist" /\ call.existed /\ ~call.threw /\ call.at > 0
    /\ \E r \in playlists : r.created_at = 0 /\ r.updated_at = call.at

\* C19: after a successful upsertTrack(trackData, albumId) the stored track of
\* trackData.id references albumId, whether the call created or updated it.
C19_TrackBoundToAlbum ==
    (call.op = "upsertTrack" /\ ~call.threw) =>
        \A r \in FindBySpotifyId(tracks, call.sid) : r.album_id = call.albumId

(***************************************************************************)
(* Properties of the stages of one import run                              *)
(***************************************************************************)
\* C21: in a run, a request of fetchPlaylist is sent only with a token; until
\* the fetch has returned nothing is processed or written; once anything is
\* processed the whole playlist has been fetched; playlist-track rows are written
\* only after every record has been processed; the summary exists only after the
\* playlist linking has completed, and never in a run that aborted.
C21_StageOrdering ==
    pc # "idle" =>
       /\ Len(requests) > 0 => accessToken # None
       /\ pc \in {"auth", "meta", "pages", "fetched"} =>
             dbVars = dbAtStart /\ processedData = EmptyData
       /\ (processedData # EmptyData \/ dbVars # dbAtStart) => allTracks = source.items
       /\ (playlistTracks # dbAtStart[7] \/ pc \in {"link", "summary", "done"}) =>
             Len(processedData.tracks) = Len(allTracks)
       /\ pc = "done" => ExpectedPlaylistRows \subseteq playlistTracks
       /\ pc # "done" => summary = None

\* a run over two pages and two different records has emitted its summary
C21_Witness ==
    /\ pc = "done" /\ Len(source.items) = 2 /\ source.items[1] # source.items[2]
    /\ summary.tracks = 2
    /\ Cardinality(playlistTracks) >= 2

(***************************************************************************)
(* Termination of an import run                                            *)
(***************************************************************************)
\* the most artists a track of the catalog has
MaxArtistsOfTrack ==
    CHOOSE n \in {Len(ArtistsOf(t)) : t \in TrackIds} :
       \A t \in TrackIds : Len(ArtistsOf(t)) <= n
\* an upper bound of the steps of one record, plus one
RecordSteps == 5 + MaxArtistsOfTrack

Running == pc \notin {"idle", "done", "aborted"}

\* an upper bound of the number of steps the run still takes
StepsLeft ==
    CASE pc = "auth" -> 7 + Len(source.items) * (RecordSteps + 1)
      [] pc = "meta" -> 6 + Len(source.items) * (RecordSteps + 1)
      [] pc = "pages" -> 5 + totalTracks * RecordSteps + (totalTracks - offset)
      [] pc = "fetched" -> 4 + Len(allTracks) * RecordSteps
      [] pc = "playlist" -> 3 + Len(allTracks) * RecordSteps
      [] pc = "artists" -> 2 + (Len(allTracks) - i) * RecordSteps
                             + 5 + (Len(CurrentTrack.artists) - j)
      [] pc = "album" -> 2 + (Len(allTracks) - i) * RecordSteps + 4
      [] pc = "albumArtists" -> 2 + (Len(allTracks) - i) * RecordSteps + 3
      [] pc = "track" -> 2 + (Len(allTracks) - i) * RecordSteps + 2
      [] pc = "trackArtists" -> 2 + (Len(allTracks) - i) * RecordSteps + 1
      [] pc = "link" -> 2
      [] pc = "summary" -> 1
      [] OTHER -> 0

C23_SummaryCountsDistinct ==
    pc = "done" =>
       /\ summary.artists =
             Cardinality(UNION {Range(ArtistsOf(t)) : t \in Range(allTracks)})
       /\ summary.albums = Cardinality({AlbumOf(t) : t \in Range(allTracks)})
       /\ summary.tracks = Cardinality(Range(allTracks))

(***************************************************************************)
(* Failure of the token exchange                                           *)
(***************************************************************************)
\* a getAccessToken call that sent a request and has ended
ExchangeEnded == call.op = "getAccessToken" /\ call.requested /\ call.done

\* C24: a getAccessToken call whose exchange is answered non-2xx or with a body
\* lacking access_token or expires_in throws; a call that does not throw returns
\* a token; a call sends at most one request; after a failed exchange no token
\* is cached as valid.
C24_TokenFailureSurfaces ==
    call.op = "getAccessToken" =>
       /\ call.sent <= 1
       /\ (ExchangeEnded /\ call.malformed) => call.threw
       /\ (call.done /\ ~call.threw) => call.returned # None
       /\ (ExchangeEnded /\ (call.threw \/ call.malformed)) =>
             ~TokenValid(accessToken, tokenExpiry, now)

\* the parts of C24 that hold: one request per call, a non-2xx answer throws
\* and nothing valid is cached after a failed exchange
TokenFailureNoRetryNoCache ==
    call.op = "getAccessToken" =>
       /\ call.sent <= 1
       /\ (ExchangeEnded /\ (call.threw \/ call.malformed)) =>
             ~TokenValid(accessToken, tokenExpiry, now)

(***************************************************************************)
(* Playlist positions over re-imports                                      *)
(***************************************************************************)
\* C25: after a completed import the PlaylistTrack rows of the playlist are
\* exactly the rows (track of item k, position k), k = 1..N, of the sequence this
\* run imported; no row of an earlier run that the sequence does not have stays.
C25_NoStalePositions ==
    pc = "done" => playlistTracks = ExpectedPlaylistRows

(***************************************************************************)
(* The counters of the album cover seeder                                  *)
(***************************************************************************)
\* C26: after every iteration of the processAllAlbums loop stats.processed is
\* stats.success + stats.skipped + stats.failed and stats.errors has stats.failed
\* entries; when the loop has ended stats.processed is stats.total.
C26_CoverCounters ==
    /\ stats.processed = stats.success + stats.skipped + stats.failed
    /\ Len(stats.errors) = stats.failed
    /\ pc = "c_album" => stats.processed = ci - 1
    /\ pc = "done" => stats.processed = stats.total

\* the loop over two albums has ended with one success and one failure
C26_Witness ==
    /\ pc = "done" /\ stats.total = 2
    /\ stats.success = 1 /\ stats.failed = 1

(***************************************************************************)
(* Cover objects and Media records                                         *)
(***************************************************************************)
\* C27: every object written to the content store is referenced by a Media
\* record (its filename), also after a media.create that failed once the
\* upload had succeeded.
C27_NoOrphanedCovers ==
    \A b \in blobs : \E m \in media : m.filename = b

(***************************************************************************)
(* server.js: POST /purchase and POST /songs/:id/play.  Every await of a   *)
(* handler is a step, so the handlers of two requests interleave.          *)
(***************************************************************************)
Users == {"u1", "u2"}

\* the store of the server: the user songs s1 uploaded by u1 and s2 uploaded by
\* u2, the catalog track t1, no purchase; the seeders play no part
InitServer ==
    /\ artists = {[id |-> NewId("A"), spotify_id |-> "A", name |-> 1,
                   created_at |-> 0, updated_at |-> 0]}
    /\ albums = {[id |-> NewId("X"), spotify_id |-> "X", name |-> 1,
                  created_at |-> 0, updated_at |-> 0]}
    /\ tracks = {[id |-> NewId("t1"), spotify_id |-> "t1", name |-> 1,
                  album_id |-> NewId("X"), created_at |-> 0, updated_at |-> 0]}
    /\ playlists = {}
    /\ albumArtists = {} /\ trackArtists = {} /\ playlistTracks = {}
    /\ media = {} /\ blobs = {}
    /\ containerConfigured = FALSE
    /\ brokenImages = FALSE
    /\ userSongs = {[id |-> NewId("s1"), ownerId |-> "u1", plays |-> 0],
                    [id |-> NewId("s2"), ownerId |-> "u2", plays |-> 0]}
    /\ purchases = {}
    /\ handlers = [h \in 1..MaxRequests |-> FreeHandler]
    /\ stats = ZeroStats /\ calbums = <<>> /\ ci = 0
    /\ pc = "idle"
    /\ source = [items |-> <<>>, ver |-> 1]
    /\ limit = 0
    /\ accessToken = None
    /\ totalTracks = 0 /\ offset = 0 /\ allTracks = <<>>
    /\ i = 0 /\ j = 0 /\ artistIds = <<>> /\ processedAlbum = <<>>
    /\ processedData = EmptyData
    /\ exitCode = 0
    /\ summary = None
    /\ runs = 0
    /\ errorLog = {}
    /\ dbAtStart = <<>>
    /\ prev = NoPrev
    /\ lastUpsert = NoUpsert
    /\ coverCalls = ZeroCount
    /\ downloads = ZeroCount
    /\ uploads = ZeroCount
    /\ requests = <<>>
    /\ call = NoCall
    /\ now = 0
    /\ tokenExpiry = 0
    /\ skipChecks = [db |-> FALSE, blob |-> FALSE]
    /\ healthCheck = NoHealthCheck
    /\ response = NoResponse

serverFrame == <<dbVars, envVars, runVars, coverVars, obsVars, requests, serviceVars>>

\* the ids a request may name: the user songs, the catalog track
SongIds == {NewId("s1"), NewId("s2"), NewId("t1")}

\* res.status(code): the handler has answered
Answer(h, code) == [handlers EXCEPT ![h].pc = "answered", ![h].status = code]

\* prisma.userSong.findUnique({ where: { id } }): the row, or none
FindUserSong(id) == {s \in userSongs : s.id = id}

\* prisma.track.findUnique({ where: { id } })
FindTrack(id) == {t \in tracks : t.id = id}

\* lines 802-814: userSong is looked up when songType is absent or 'user'
ResolvedUserSong(songType, songId) ==
    IF songType \in {None, "user"} THEN FindUserSong(songId) ELSE {}

\* lines 802-814: track is looked up when songType is 'spotify', or absent and
\* no user song has the id
ResolvedTrack(songType, songId) ==
    IF songType = "spotify" \/ (songType = None /\ FindUserSong(songId) = {})
    THEN FindTrack(songId) ELSE {}

\* resolvedSongType after lines 802-814
ResolvedSongType(songType, songId) ==
    IF songType # None THEN songType
    ELSE IF FindUserSong(songId) # {} THEN "user"
    ELSE IF FindTrack(songId) # {} THEN "spotify"
    ELSE None

\* POST /purchase reaches the handler: 400 without userId or songId
PurchaseRequest ==
    \E h \in 1..MaxRequests :
       /\ handlers[h].pc = "free"
       /\ \E userId \in Users \cup {None}, songId \in SongIds \cup {<<>>},
             songType \in {None, "user", "spotify", "other"} :
             LET req == [FreeHandler EXCEPT !.route = "purchase", !.userId = userId,
                                            !.songId = songId, !.songType = songType]
             IN handlers' = [handlers EXCEPT ![h] =
                    IF userId = None \/ songId = <<>>
                    THEN [req EXCEPT !.pc = "answered", !.status = 400]
                    ELSE [req EXCEPT !.pc = "resolve"]]
       /\ UNCHANGED <<serverFrame, userSongs, purchases>>

\* the song type is resolved and the ownership test made: 403 for an own song
PurchaseResolve ==
    \E h \in 1..MaxRequests :
       /\ handlers[h].pc = "resolve"
       /\ LET req == handlers[h]
              userSong == ResolvedUserSong(req.songType, req.songId)
              track == ResolvedTrack(req.songType, req.songId)
              resolved == ResolvedSongType(req.songType, req.songId)
          IN handlers' = [handlers EXCEPT ![h] =
                 [req EXCEPT !.userSong = userSong, !.track = track,
                             !.resolvedSongType = resolved,
                             !.pc = IF \E s \in userSong : s.ownerId = req.userId
                                    THEN "answered" ELSE "check",
                             !.status = IF \E s \in userSong : s.ownerId = req.userId
                                        THEN 403 ELSE 0]]
       /\ UNCHANGED <<serverFrame, userSongs, purchases>>

\* prisma.purchase.findFirst({ where: { userId, songId } }): 409 when found
PurchaseFindExisting ==
    \E h \in 1..MaxRequests :
       /\ handlers[h].pc = "check"
       /\ LET req == handlers[h]
              existing == {p \in purchases : p.userId = req.userId /\ p.songId = req.songId}
          IN handlers' = IF existing # {}
                         THEN Answer(h, 409)
                         ELSE [handlers EXCEPT ![h].pc = "create"]
       /\ UNCHANGED <<serverFrame, userSongs, purchases>>

\* prisma.purchase.create: a new row with a new id, then 201
PurchaseCreate ==
    \E h \in 1..MaxRequests :
       /\ handlers[h].pc = "create"
       /\ LET req == handlers[h]
          IN purchases' = purchases \cup
                 {[id |-> Cardinality(purchases) + 1, userId |-> req.userId,
                   songId |-> req.songId,
                   songType |-> IF req.resolvedSongType = None THEN "user"
                                ELSE req.resolvedSongType]}
       /\ handlers' = Answer(h, 201)
       /\ UNCHANGED <<serverFrame, userSongs>>

\* a store call of the handler throws: the catch answers 500
PurchaseError ==
    \E h \in 1..MaxRequests :
       /\ handlers[h].pc \in {"resolve", "check", "create"}
       /\ handlers' = Answer(h, 500)
       /\ UNCHANGED <<serverFrame, userSongs, purchases>>

NextPurchase ==
    \/ PurchaseRequest \/ PurchaseResolve \/ PurchaseFindExisting
    \/ PurchaseCreate \/ PurchaseError

SpecPurchase == InitServer /\ [][NextPurchase]_vars

\* POST /songs/:id/play reaches the handler
PlayRequest ==
    \E h \in 1..MaxRequests :
       /\ handlers[h].pc = "free"
       /\ \E id \in SongIds :
             handlers' = [handlers EXCEPT ![h] =
                 [FreeHandler EXCEPT !.route = "play", !.songId = id, !.pc = "find"]]
       /\ UNCHANGED <<serverFrame, userSongs, purchases>>

\* prisma.userSong.findUnique: 404 without the song, else the row is kept
PlayFind ==
    \E h \in 1..MaxRequests :
       /\ handlers[h].pc = "find"
       /\ LET song == FindUserSong(handlers[h].songId)
          IN handlers' = IF song = {}
                         THEN Answer(h, 404)
                         ELSE [handlers EXCEPT ![h].pc = "update", ![h].userSong = song,
                                               ![h].plays = (CHOOSE s \in song : TRUE).plays]
       /\ UNCHANGED <<serverFrame, userSongs, purchases>>

\* prisma.userSong.update({ data: { plays: song.plays + 1 } }), then 200
PlayUpdate ==
    \E h \in 1..MaxRequests :
       /\ handlers[h].pc = "update"
       /\ userSongs' = {IF s.id = handlers[h].songId
                        THEN [s EXCEPT !.plays = handlers[h].plays + 1] ELSE s
                        : s \in userSongs}
       /\ handlers' = Answer(h, 200)
       /\ UNCHANGED <<serverFrame, purchases>>

\* findUnique or update throws: the catch answers 500
PlayError ==
    \E h \in 1..MaxRequests :
       /\ handlers[h].pc \in {"find", "update"}
       /\ handlers' = Answer(h, 500)
       /\ UNCHANGED <<serverFrame, userSongs, purchases>>

NextPlay == PlayRequest \/ PlayFind \/ PlayUpdate \/ PlayError

SpecPlay == InitServer /\ [][NextPlay]_vars

(***************************************************************************)
(* Properties of the purchase and play routes                              *)
(***************************************************************************)
\* C28: the store never holds two Purchase rows of one (userId, songId), and a
\* request that found the pair purchased has answered 409.
C28_PurchaseUnique ==
    /\ \A p1, p2 \in purchases :
          (p1.userId = p2.userId /\ p1.songId = p2.songId) => p1 = p2
    /\ \A h \in 1..MaxRequests :
          handlers[h].status = 409 =>
             \E p \in purchases : p.userId = handlers[h].userId
                                  /\ p.songId = handlers[h].songId

\* a request that names a user song uploaded by the requesting user
OwnSong(req) ==
    \E s \in userSongs : s.id = req.songId /\ s.ownerId = req.userId

\* C29: no Purchase row names a user song uploaded by its own userId, whatever
\* songType the request carried; a request for an own song that was answered
\* without a store error was answered 403.
C29_NoSelfPurchase ==
    /\ \A p \in purchases : ~OwnSong(p)
    /\ \A h \in 1..MaxRequests :
          (handlers[h].route = "purchase" /\ handlers[h].pc = "answered"
             /\ handlers[h].status # 500 /\ OwnSong(handlers[h])) =>
                handlers[h].status = 403

\* C30: the stored plays of a user song is its initial value, 0, plus the
\* number of play requests for it that answered 200.
C30_NoPlayLost ==
    \A s \in userSongs :
       s.plays = Cardinality({h \in 1..MaxRequests :
                                 /\ handlers[h].route = "play"
                                 /\ handlers[h].songId = s.id
                                 /\ handlers[h].status = 200})

====
